---- MODULE Spec2Model ----
(***************************************************************************)
(* A model of the digital-modulation simulator: the constellation          *)
(* generator, the modulator and the minimum-distance demodulator           *)
(* (utils/modulation.ts), the simulation session (hooks/useSimulation.ts)  *)
(* and the sweep point (utils/sweep.ts).                                   *)
(*                                                                         *)
(* Numbers.  Every coordinate the program handles in one call is, in exact *)
(* arithmetic, of the form (a + b*sqrt(2)) * scale, with a, b integers and *)
(* scale the normalisation factor of the constellation in use (1, 1/sqrt 2,*)
(* 1/2, 1/sqrt 10, 1/sqrt 42).  A number is modelled as the pair <<a, b>>  *)
(* in units of that scale; sums, products and comparisons are exact.  The  *)
(* rounding of IEEE doubles (about 1e-16 relative) is not modelled.        *)
(*                                                                         *)
(* Strings.  A bit label is a sequence of the characters "0" and "1".      *)
(***************************************************************************)
EXTENDS Integers, Sequences, FiniteSets, TLC

----------------------------------------------------------------------------
(* Exact arithmetic on numbers a + b*sqrt(2).                              *)

Num(a) == <<a, 0>>

NZero == <<0, 0>>

NAdd(x, y) == <<x[1] + y[1], x[2] + y[2]>>

NSub(x, y) == <<x[1] - y[1], x[2] - y[2]>>

NNeg(x) == <<0 - x[1], 0 - x[2]>>

NMul(x, y) == <<x[1] * y[1] + 2 * x[2] * y[2], x[1] * y[2] + x[2] * y[1]>>

\* the sign of a + b*sqrt(2): compare a^2 with 2*b^2 when the signs differ
NSign(x) ==
    LET a == x[1]
        b == x[2]
    IN  IF a >= 0 /\ b >= 0 THEN (IF a = 0 /\ b = 0 THEN 0 ELSE 1)
        ELSE IF a <= 0 /\ b <= 0 THEN -1
        ELSE IF a > 0 THEN (IF a * a > 2 * b * b THEN 1 ELSE -1)
        ELSE (IF 2 * b * b > a * a THEN 1 ELSE -1)

NLess(x, y) == NSign(NSub(x, y)) = -1

----------------------------------------------------------------------------
(* types/index.ts                                                          *)

Schemes == {"BPSK", "QPSK", "8-PSK", "16-QAM", "64-QAM"}

\* the tags a caller can hand over at run time: the five schemes and a string
\* that is none of them
Tags == Schemes \cup {"OOK"}

BITS_PER_SYMBOL(scheme) ==
    CASE scheme = "BPSK" -> 1
      [] scheme = "QPSK" -> 2
      [] scheme = "8-PSK" -> 3
      [] scheme = "16-QAM" -> 4
      [] scheme = "64-QAM" -> 6

----------------------------------------------------------------------------
(* utils/modulation.ts: constellation generation.  ScaleInvSq(scheme) is   *)
(* 1/scale^2 of the unit the scheme's coordinates are written in: a point  *)
(* with model coordinates (I, Q) has energy (I^2 + Q^2) / ScaleInvSq.      *)

ScaleInvSq(scheme) ==
    CASE scheme = "BPSK" -> 1
      [] scheme = "QPSK" -> 2
      [] scheme = "8-PSK" -> 4
      [] scheme = "16-QAM" -> 10
      [] scheme = "64-QAM" -> 42

Point(I, Q, bits) == [I |-> I, Q |-> Q, bits |-> bits]

generateBPSK ==
    << Point(Num(1), Num(0), <<"0">>),
       Point(Num(-1), Num(0), <<"1">>) >>

\* mutant: the labels in binary order round the circle
Mut_generateQPSK ==
    LET scale == Num(1)
    IN  << Point(scale, scale, <<"0", "0">>),
           Point(NNeg(scale), scale, <<"0", "1">>),
           Point(NNeg(scale), NNeg(scale), <<"1", "0">>),
           Point(scale, NNeg(scale), <<"1", "1">>) >>

generateQPSK ==
    LET scale == Num(1)
    IN  << Point(scale, scale, <<"0", "0">>),
           Point(NNeg(scale), scale, <<"0", "1">>),
           Point(NNeg(scale), NNeg(scale), <<"1", "1">>),
           Point(scale, NNeg(scale), <<"1", "0">>) >>

grayCode3 ==
    << <<"0", "0", "0">>, <<"0", "0", "1">>, <<"0", "1", "1">>, <<"0", "1", "0">>,
       <<"1", "1", "0">>, <<"1", "1", "1">>, <<"1", "0", "1">>, <<"1", "0", "0">> >>

gray3 ==
    << <<"0", "0", "0">>, <<"0", "0", "1">>, <<"0", "1", "1">>, <<"0", "1", "0">>,
       <<"1", "1", "0">>, <<"1", "1", "1">>, <<"1", "0", "1">>, <<"1", "0", "0">> >>

\* mutant: the axis code in binary order instead of Gray order
Mut_gray2 ==
    << <<"0", "0">>, <<"0", "1">>, <<"1", "0">>, <<"1", "1">> >>

gray2 ==
    << <<"0", "0">>, <<"0", "1">>, <<"1", "1">>, <<"1", "0">> >>

\* cos(i*pi/4) and sin(i*pi/4) in units of 1/2, for i = 0..7
CosQuarterPi(i) ==
    CASE i % 8 = 0 -> <<2, 0>>
      [] i % 8 = 1 -> <<0, 1>>
      [] i % 8 = 2 -> <<0, 0>>
      [] i % 8 = 3 -> <<0, -1>>
      [] i % 8 = 4 -> <<-2, 0>>
      [] i % 8 = 5 -> <<0, -1>>
      [] i % 8 = 6 -> <<0, 0>>
      [] i % 8 = 7 -> <<0, 1>>

SinQuarterPi(i) == CosQuarterPi(i + 6)

complexFromPolar(i) == [I |-> CosQuarterPi(i), Q |-> SinQuarterPi(i)]

generate8PSK ==
    [i \in 1..8 |->
        LET point == complexFromPolar(i - 1)
        IN  Point(point.I, point.Q, grayCode3[i])]

coords16 == <<-3, -1, 1, 3>>

\* mutant: the outermost level at 8
Mut_coords64 == <<-7, -5, -3, -1, 1, 3, 5, 8>>

coords64 == <<-7, -5, -3, -1, 1, 3, 5, 7>>

\* mutant: the I index used for both halves of the label
Mut_generate16QAM ==
    [n \in 1..16 |->
        LET qi == (n - 1) \div 4
            ii == (n - 1) % 4
        IN  Point(Num(coords16[ii + 1]), Num(coords16[qi + 1]),
                  gray2[ii + 1] \o gray2[ii + 1])]

\* the nested loops: qi outer, ii inner, one push per pair
generate16QAM ==
    [n \in 1..16 |->
        LET qi == (n - 1) \div 4
            ii == (n - 1) % 4
        IN  Point(Num(coords16[ii + 1]), Num(coords16[qi + 1]),
                  gray2[ii + 1] \o gray2[qi + 1])]

\* mutant: the Q index labels the first half and the I index the second
Mut_generate64QAM ==
    [n \in 1..64 |->
        LET qi == (n - 1) \div 8
            ii == (n - 1) % 8
        IN  Point(Num(coords64[ii + 1]), Num(coords64[qi + 1]),
                  gray3[qi + 1] \o gray3[ii + 1])]

generate64QAM ==
    [n \in 1..64 |->
        LET qi == (n - 1) \div 8
            ii == (n - 1) % 8
        IN  Point(Num(coords64[ii + 1]), Num(coords64[qi + 1]),
                  gray3[ii + 1] \o gray3[qi + 1])]

\* the default branch of the switch: throw new Error
generateConstellationThrows(scheme) == scheme \notin Schemes

generateConstellation(scheme) ==
    CASE scheme = "BPSK" -> generateBPSK
      [] scheme = "QPSK" -> generateQPSK
      [] scheme = "8-PSK" -> generate8PSK
      [] scheme = "16-QAM" -> generate16QAM
      [] scheme = "64-QAM" -> generate64QAM

----------------------------------------------------------------------------
(* utils/modulation.ts: modulation and demodulation.                       *)

\* Array.prototype.join('') on numbers: each bit becomes its decimal digit
BitChar(b) == IF b = 0 THEN "0" ELSE IF b = 1 THEN "1" ELSE "?"

join(bits) == [i \in 1..Len(bits) |-> BitChar(bits[i])]

\* bits.slice(i, i + n), i counted from 0
slice(bits, i, n) == SubSeq(bits, i + 1, i + n)

\* mutant: a group without a match is given the first point
Mut_bitMapGet(constellation, bitGroup, n) ==
    LET hits == {m \in 1..n : constellation[m].bits = bitGroup}
    IN  IF hits = {}
        THEN [found |-> TRUE, point |-> constellation[1]]
        ELSE [found |-> TRUE,
              point |-> constellation[CHOOSE m \in hits : \A x \in hits : x <= m]]

\* the Map built by bitMap.set(point.bits, point) over the first n points in
\* constellation order: a later point with the same label replaces an
\* earlier one, so get returns the last point that carries the label
bitMapGet(constellation, bitGroup, n) ==
    LET hits == {m \in 1..n : constellation[m].bits = bitGroup}
    IN  IF hits = {}
        THEN [found |-> FALSE]
        ELSE [found |-> TRUE,
              point |-> constellation[CHOOSE m \in hits : \A x \in hits : x <= m]]

\* mutant: the loop stops one group early (< for <=)
RECURSIVE Mut_modulateLoop(_, _, _, _)
Mut_modulateLoop(bits, constellation, i, symbols) ==
    LET bitsPerSymbol == Len(constellation[1].bits)
    IN  IF i + bitsPerSymbol < Len(bits)
        THEN LET bitGroup == join(slice(bits, i, bitsPerSymbol))
                 hit == bitMapGet(constellation, bitGroup, Len(constellation))
             IN  IF ~hit.found
                 THEN [error |-> TRUE, symbols |-> <<>>]
                 ELSE Mut_modulateLoop(bits, constellation, i + bitsPerSymbol,
                          Append(symbols, [I |-> hit.point.I, Q |-> hit.point.Q]))
        ELSE [error |-> FALSE, symbols |-> symbols]

RECURSIVE modulateLoop(_, _, _, _)
modulateLoop(bits, constellation, i, symbols) ==
    LET bitsPerSymbol == Len(constellation[1].bits)
    IN  IF i + bitsPerSymbol <= Len(bits)
        THEN LET bitGroup == join(slice(bits, i, bitsPerSymbol))
                 hit == bitMapGet(constellation, bitGroup, Len(constellation))
             IN  IF ~hit.found
                 THEN [error |-> TRUE, symbols |-> <<>>]
                 ELSE modulateLoop(bits, constellation, i + bitsPerSymbol,
                          Append(symbols, [I |-> hit.point.I, Q |-> hit.point.Q]))
        ELSE [error |-> FALSE, symbols |-> symbols]

\* result: error = TRUE for the throw (nothing is returned), else the symbols
modulateBits(bits, constellation) == modulateLoop(bits, constellation, 0, <<>>)

\* mutant: the I difference used for both terms
Mut_complexDistanceSquared(a, b) ==
    LET dI == NSub(a.I, b.I)
    IN  NAdd(NMul(dI, dI), NMul(dI, dI))

complexDistanceSquared(a, b) ==
    LET dI == NSub(a.I, b.I)
        dQ == NSub(a.Q, b.Q)
    IN  NAdd(NMul(dI, dI), NMul(dQ, dQ))

\* mutant: a point at the same distance also replaces the decision
Mut_demodStep(symbol, point, best) ==
    LET distSquared == complexDistanceSquared(symbol, point)
    IN  IF best.isInf \/ ~NLess(best.minDistSquared, distSquared)
        THEN [isInf |-> FALSE, minDistSquared |-> distSquared, decidedBits |-> point.bits]
        ELSE best

\* one pass of the loop of demodulate: minDistSquared starts at Infinity
\* (isInf), and a point replaces the decision only when strictly closer
demodStep(symbol, point, best) ==
    LET distSquared == complexDistanceSquared(symbol, point)
    IN  IF best.isInf \/ NLess(distSquared, best.minDistSquared)
        THEN [isInf |-> FALSE, minDistSquared |-> distSquared, decidedBits |-> point.bits]
        ELSE best

\* the passes for the points lo..hi, in constellation order, from the
\* locals best: the first half of the range runs to its end, then the
\* second half runs from the locals the first half left
RECURSIVE demodScan(_, _, _, _, _)
demodScan(symbol, constellation, lo, hi, best) ==
    IF lo > hi THEN best
    ELSE IF lo = hi THEN demodStep(symbol, constellation[lo], best)
    ELSE LET mid == (lo + hi) \div 2
             firstHalf == demodScan(symbol, constellation, lo, mid, best)
         IN  IF firstHalf = best
             THEN demodScan(symbol, constellation, mid + 1, hi, best)
             ELSE demodScan(symbol, constellation, mid + 1, hi, firstHalf)

demodulateOne(symbol, constellation) ==
    demodScan(symbol, constellation, 1, Len(constellation),
              [isInf |-> TRUE, minDistSquared |-> NZero,
               decidedBits |-> constellation[1].bits]).decidedBits

demodulate(received, constellation) ==
    [i \in 1..Len(received) |-> demodulateOne(received[i], constellation)]

\* mutant: a point at the same distance also replaces the closest point
Mut_symbolStep(symbol, point, best) ==
    LET dist == complexDistanceSquared(symbol, point)
    IN  IF best.isInf \/ ~NLess(best.minDist, dist)
        THEN [isInf |-> FALSE, minDist |-> dist, closestPoint |-> point]
        ELSE best

\* one pass of the loop of symbolToBits
symbolStep(symbol, point, best) ==
    LET dist == complexDistanceSquared(symbol, point)
    IN  IF best.isInf \/ NLess(dist, best.minDist)
        THEN [isInf |-> FALSE, minDist |-> dist, closestPoint |-> point]
        ELSE best

\* the passes for the points lo..hi, in constellation order: the first
\* half of the range, then the second half from the locals it left
RECURSIVE symbolScan(_, _, _, _, _)
symbolScan(symbol, constellation, lo, hi, best) ==
    IF lo > hi THEN best
    ELSE IF lo = hi THEN symbolStep(symbol, constellation[lo], best)
    ELSE LET mid == (lo + hi) \div 2
             firstHalf == symbolScan(symbol, constellation, lo, mid, best)
         IN  IF firstHalf = best
             THEN symbolScan(symbol, constellation, mid + 1, hi, best)
             ELSE symbolScan(symbol, constellation, mid + 1, hi, firstHalf)

symbolToBits(symbol, constellation) ==
    symbolScan(symbol, constellation, 1, Len(constellation),
               [isInf |-> TRUE, minDist |-> NZero,
                closestPoint |-> constellation[1]]).closestPoint.bits

demodulateWithInfo(received, transmitted, constellation) ==
    LET transmittedBits == symbolToBits(transmitted, constellation)
        decodedBits == demodulate(<<received>>, constellation)[1]
        isError == transmittedBits # decodedBits
    IN  [transmittedBits |-> transmittedBits, decodedBits |-> decodedBits,
         isError |-> isError]

\* mutant: a mismatch counts only where the received bit equals the first one
RECURSIVE Mut_countLoop(_, _, _)
Mut_countLoop(transmitted, received, i) ==
    IF i > Len(transmitted) THEN 0
    ELSE (IF transmitted[i] # received[i] /\ received[i] = received[1] THEN 1 ELSE 0)
         + Mut_countLoop(transmitted, received, i + 1)

RECURSIVE countLoop(_, _, _)
countLoop(transmitted, received, i) ==
    IF i > Len(transmitted) THEN 0
    ELSE (IF transmitted[i] # received[i] THEN 1 ELSE 0)
         + countLoop(transmitted, received, i + 1)

\* result: [error |-> TRUE] for the throw, else the count
countBitErrorsFromStrings(transmitted, received) ==
    IF Len(transmitted) # Len(received)
    THEN [error |-> TRUE, errors |-> 0]
    ELSE [error |-> FALSE, errors |-> countLoop(transmitted, received, 1)]

complexAdd(a, b) == [I |-> NAdd(a.I, b.I), Q |-> NAdd(a.Q, b.Q)]

----------------------------------------------------------------------------
(* utils/channel.ts.  An Eb/N0 in dB is <<"fin", v>> for the finite value  *)
(* v, or PosInfinity.                                                      *)

Db(v) == <<"fin", v>>

PosInfinity == <<"inf", 0>>

\* 1 / (10^(ebN0Db / 10) * bitsPerSymbol): zero for +Infinity dB, positive
\* for every finite value in the range of the controls.  For a tag that is
\* no key of BITS_PER_SYMBOL the lookup is undefined and the product NaN.
calculateNoiseVariance(ebN0Db, scheme) ==
    IF scheme \notin Schemes THEN "NaN"
    ELSE IF ebN0Db = PosInfinity THEN "zero" ELSE "positive"

\* complexGaussianRandom(variance) with z the Box-Muller pair drawn: the
\* sample is stdDev * z, which is 0 for a zero variance
complexGaussianRandom(variance, z) ==
    IF variance = "zero" THEN [I |-> NZero, Q |-> NZero] ELSE z

\* mutant: the pair drawn for the first symbol is added to every symbol
Mut_addAWGN(symbols, ebN0Db, scheme, z) ==
    LET noiseVariance == calculateNoiseVariance(ebN0Db, scheme)
    IN  [i \in 1..Len(symbols) |->
            complexAdd(symbols[i], complexGaussianRandom(noiseVariance, z[1]))]

\* addAWGN with z[i] the pair drawn for symbol i
addAWGN(symbols, ebN0Db, scheme, z) ==
    LET noiseVariance == calculateNoiseVariance(ebN0Db, scheme)
    IN  [i \in 1..Len(symbols) |->
            complexAdd(symbols[i], complexGaussianRandom(noiseVariance, z[i]))]

----------------------------------------------------------------------------
(* Bounds of the model.                                                    *)

\* longest bit sequence handed to modulateBits
MaxBits == 8

\* noise offsets range over -MaxNoise..MaxNoise units on each axis
MaxNoise == 1

\* two-sample inputs of demodulate are drawn around the first MaxProbe points
MaxProbe == 2

RECURSIVE BitSeqs(_)
BitSeqs(n) ==
    IF n = 0 THEN {<<>>}
    ELSE LET shorter == BitSeqs(n - 1)
         IN  shorter \cup {Append(b, x) : b \in {t \in shorter : Len(t) = n - 1}, x \in {0, 1}}

NoiseSet == {[I |-> Num(a), Q |-> Num(b)] : a \in (0 - MaxNoise)..MaxNoise, b \in (0 - MaxNoise)..MaxNoise}

\* the received samples around the first n points of a constellation
Samples(constellation, n) ==
    {complexAdd([I |-> constellation[i].I, Q |-> constellation[i].Q], nz) :
        i \in 1..n, nz \in NoiseSet}

Min(a, b) == IF a < b THEN a ELSE b

ReceivedInputs(constellation) ==
    {<<>>}
    \cup {<<x>> : x \in Samples(constellation, Len(constellation))}
    \cup {<<x, y>> : x \in Samples(constellation, Min(MaxProbe, Len(constellation))),
                     y \in Samples(constellation, Min(MaxProbe, Len(constellation)))}

\* a constellation with its point number n left out
Without(constellation, n) ==
    [i \in 1..(Len(constellation) - 1) |->
        IF i < n THEN constellation[i] ELSE constellation[i + 1]]

Generated == {generateConstellation(scheme) : scheme \in Schemes}

\* the generated alphabets, and alphabets that miss their first or last point
TestConstellations ==
    Generated
    \cup {Without(c, 1) : c \in Generated}
    \cup {Without(c, Len(c)) : c \in Generated}

----------------------------------------------------------------------------
(* State.                                                                  *)

VARIABLES
    call,             \* the library call made last: its name and arguments
    ret,              \* what that call returned
    state,            \* the SimulationState record of useSimulation
    timeAccumulator,  \* timeAccumulatorRef.current, in milliseconds
    lastTimeSet,      \* whether lastTimeRef of useAnimationFrame holds a time
    lastOp,           \* history: the session operation that ran last
    stateBefore,      \* history: the SimulationState before that operation
    sweep             \* the locals of a running simulateBerAtSnr call

fnVars == <<call, ret>>

sessionVars == <<state, timeAccumulator, lastTimeSet, lastOp, stateBefore>>

vars == <<call, ret, state, timeAccumulator, lastTimeSet, lastOp, stateBefore, sweep>>

\* history of a session operation
Record(op) ==
    /\ lastOp' = op
    /\ stateBefore' = state

----------------------------------------------------------------------------
(* hooks/useSimulation.ts: the simulation session.                         *)

WAVEFORM_SYMBOLS == 8

MAX_RECENT_SYMBOLS == 200

\* steps a session takes before the model stops it
MaxSteps == 2

\* the accumulated time (ms) beyond which the model takes no further frame
MaxAccumulatedMs == 160

\* the values the controls hand to setSnrDb and setPlaybackSpeed, and the
\* frame intervals (ms) the browser hands to the animation callback
SnrValues == {Db(10), PosInfinity}

PlaybackSpeeds == {100, 200}

FrameDeltas == {40, 80}

\* the draws of one step: the random bits and the noise pairs repeat a short
\* pattern over the length of the batch
Cycle(pattern, n) == [i \in 1..n |-> pattern[((i - 1) % Len(pattern)) + 1]]

BitPatterns == {<<0>>, <<0, 1, 1, 1, 0>>}

NoisePatterns ==
    { <<[I |-> NZero, Q |-> NZero]>>,
      <<[I |-> NZero, Q |-> NZero], [I |-> Num(-2), Q |-> NZero], [I |-> NZero, Q |-> Num(1)]>> }

generateRandomBits(count) == {Cycle(pattern, count) : pattern \in BitPatterns}

InitialState(initialScheme, initialSnrDb) ==
    [ scheme |-> initialScheme,
      snrDb |-> initialSnrDb,
      symbolCount |-> 0,
      bitCount |-> 0,
      bitErrorCount |-> 0,
      recentSymbols |-> <<>>,
      currentSymbols |-> <<>>,
      currentBits |-> <<>>,
      noisySymbols |-> <<>>,
      isPlaying |-> FALSE,
      playbackSpeed |-> 100 ]

\* a / b in JavaScript, for integers a and b >= 0: a fraction <<a, b>>, or
\* NaN for 0 / 0 and Infinity for a / 0
Divide(a, b) ==
    IF b = 0 THEN (IF a = 0 THEN <<"NaN", 0, 0>> ELSE <<"Infinity", 0, 0>>)
    ELSE <<"ratio", a, b>>

\* mutant: the ratio taken without the guard on bitCount
Mut_currentBER(st) == Divide(st.bitErrorCount, st.bitCount)

currentBER(st) ==
    IF st.bitCount > 0 THEN Divide(st.bitErrorCount, st.bitCount) ELSE <<"ratio", 0, 1>>

\* mutant: the first n elements kept instead of the last n
Mut_sliceLast(seq, n) ==
    IF Len(seq) <= n THEN seq ELSE SubSeq(seq, 1, n)

\* seq.slice(-n)
sliceLast(seq, n) ==
    IF Len(seq) <= n THEN seq ELSE SubSeq(seq, Len(seq) - n + 1, Len(seq))

\* mutant: the errors of the last symbol of the batch are left out
RECURSIVE Mut_sumErrors(_, _)
Mut_sumErrors(records, i) ==
    IF i >= Len(records) THEN 0 ELSE records[i].symbolErrors + Mut_sumErrors(records, i + 1)

RECURSIVE sumErrors(_, _)
sumErrors(records, i) ==
    IF i > Len(records) THEN 0 ELSE records[i].symbolErrors + sumErrors(records, i + 1)

\* steps 1 to 5 of simulateStep for one batch: modulate, add noise,
\* demodulate, count the errors, build the display records
transmit(scheme, snrDb, bits, z) ==
    LET currentConstellation == generateConstellation(scheme)
        tx == modulateBits(bits, currentConstellation)
        txSymbols == tx.symbols
        rxSymbols == addAWGN(txSymbols, snrDb, scheme, z)
        decodedBitStrings == demodulate(rxSymbols, currentConstellation)
        perSymbol ==
            [i \in 1..Len(txSymbols) |->
                LET txBitString == symbolToBits(txSymbols[i], currentConstellation)
                    rxBitString == decodedBitStrings[i]
                    symbolErrors == countBitErrorsFromStrings(txBitString, rxBitString).errors
                IN  [ symbolErrors |-> symbolErrors,
                      record |-> [ I |-> rxSymbols[i].I,
                                   Q |-> rxSymbols[i].Q,
                                   transmittedBits |-> txBitString,
                                   decodedBits |-> rxBitString,
                                   isError |-> symbolErrors > 0 ] ]]
    IN  [ error |-> tx.error,
          txSymbols |-> txSymbols,
          rxSymbols |-> rxSymbols,
          stepErrors |-> sumErrors(perSymbol, 1),
          newRecentSymbols |-> [i \in 1..Len(txSymbols) |-> perSymbol[i].record] ]

\* the batches the steps of the model draw, each computed once
BatchKeys ==
    {<<scheme, snrDb, bits, Cycle(pattern, WAVEFORM_SYMBOLS)>> :
        scheme \in Schemes, snrDb \in SnrValues,
        bits \in UNION {generateRandomBits(WAVEFORM_SYMBOLS * BITS_PER_SYMBOL(sch)) : sch \in Schemes},
        pattern \in NoisePatterns}

BatchTable ==
    {[key |-> key, batch |-> transmit(key[1], key[2], key[3], key[4])] :
        key \in {k \in BatchKeys : Len(k[3]) = WAVEFORM_SYMBOLS * BITS_PER_SYMBOL(k[1])}}

\* transmit(scheme, snrDb, bits, z), read from the table when it is there
batchOf(scheme, snrDb, bits, z) ==
    LET key == <<scheme, snrDb, bits, z>>
    IN  IF \E entry \in BatchTable : entry.key = key
        THEN (CHOOSE entry \in BatchTable : entry.key = key).batch
        ELSE transmit(scheme, snrDb, bits, z)

\* mutant: the error counter assigned instead of accumulated
Mut_simulateStep(prevState, numSymbols, bits, z) ==
    LET currentBitsPerSymbol == BITS_PER_SYMBOL(prevState.scheme)
        numBits == numSymbols * currentBitsPerSymbol
        batch == batchOf(prevState.scheme, prevState.snrDb, bits, z)
    IN  [prevState EXCEPT
            !.symbolCount = prevState.symbolCount + Len(batch.txSymbols),
            !.bitCount = prevState.bitCount + numBits,
            !.bitErrorCount = batch.stepErrors,
            !.recentSymbols = sliceLast(prevState.recentSymbols \o batch.newRecentSymbols,
                                        MAX_RECENT_SYMBOLS),
            !.currentSymbols = batch.txSymbols,
            !.currentBits = bits,
            !.noisySymbols = batch.rxSymbols]

\* the state updater of simulateStep, with the bits and the noise pairs drawn
simulateStep(prevState, numSymbols, bits, z) ==
    LET currentBitsPerSymbol == BITS_PER_SYMBOL(prevState.scheme)
        numBits == numSymbols * currentBitsPerSymbol
        batch == batchOf(prevState.scheme, prevState.snrDb, bits, z)
        updatedRecentSymbols ==
            sliceLast(prevState.recentSymbols \o batch.newRecentSymbols, MAX_RECENT_SYMBOLS)
    IN  IF batch.error
        THEN prevState    \* the updater throws: no new state is committed
        ELSE [prevState EXCEPT
                !.symbolCount = prevState.symbolCount + Len(batch.txSymbols),
                !.bitCount = prevState.bitCount + numBits,
                !.bitErrorCount = prevState.bitErrorCount + batch.stepErrors,
                !.recentSymbols = updatedRecentSymbols,
                !.currentSymbols = batch.txSymbols,
                !.currentBits = bits,
                !.noisySymbols = batch.rxSymbols]

\* the model lets a session take MaxSteps steps
MayStep == state.symbolCount < MaxSteps * WAVEFORM_SYMBOLS

step ==
    /\ MayStep
    /\ \E bits \in generateRandomBits(WAVEFORM_SYMBOLS * BITS_PER_SYMBOL(state.scheme)),
          pattern \in NoisePatterns :
          state' = simulateStep(state, WAVEFORM_SYMBOLS, bits, Cycle(pattern, WAVEFORM_SYMBOLS))
    /\ Record("step")
    /\ UNCHANGED <<timeAccumulator, lastTimeSet, call, ret, sweep>>

\* mutant: a frame that steps empties the accumulator
Mut_animationFrame ==
    /\ state.isPlaying
    /\ \E deltaTime \in FrameDeltas :
          IF ~lastTimeSet
          THEN /\ lastTimeSet' = TRUE
               /\ UNCHANGED <<state, timeAccumulator>>
          ELSE LET accumulated == timeAccumulator + deltaTime
                   msPerBatch == (WAVEFORM_SYMBOLS * 1000) \div state.playbackSpeed
               IN  IF accumulated >= msPerBatch
                   THEN /\ MayStep
                        /\ accumulated <= MaxAccumulatedMs
                        /\ \E bits \in generateRandomBits(
                                           WAVEFORM_SYMBOLS * BITS_PER_SYMBOL(state.scheme)),
                              pattern \in NoisePatterns :
                              state' = simulateStep(state, WAVEFORM_SYMBOLS, bits,
                                                    Cycle(pattern, WAVEFORM_SYMBOLS))
                        /\ timeAccumulator' = 0
                        /\ UNCHANGED lastTimeSet
                   ELSE /\ timeAccumulator' = accumulated
                        /\ UNCHANGED <<state, lastTimeSet>>
    /\ Record("animationFrame")
    /\ UNCHANGED <<call, ret, sweep>>

\* one animation frame while the loop runs: the first frame after a start
\* only records its time; a later one calls animationCallback(deltaTime)
animationFrame ==
    /\ state.isPlaying
    /\ \E deltaTime \in FrameDeltas :
          IF ~lastTimeSet
          THEN /\ lastTimeSet' = TRUE
               /\ UNCHANGED <<state, timeAccumulator>>
          ELSE LET accumulated == timeAccumulator + deltaTime
                   msPerBatch == (WAVEFORM_SYMBOLS * 1000) \div state.playbackSpeed
               IN  IF accumulated >= msPerBatch
                   THEN /\ MayStep
                        /\ accumulated <= MaxAccumulatedMs
                        /\ \E bits \in generateRandomBits(
                                           WAVEFORM_SYMBOLS * BITS_PER_SYMBOL(state.scheme)),
                              pattern \in NoisePatterns :
                              state' = simulateStep(state, WAVEFORM_SYMBOLS, bits,
                                                    Cycle(pattern, WAVEFORM_SYMBOLS))
                        /\ timeAccumulator' = accumulated - msPerBatch
                        /\ UNCHANGED lastTimeSet
                   ELSE /\ timeAccumulator' = accumulated
                        /\ UNCHANGED <<state, lastTimeSet>>
    /\ Record("animationFrame")
    /\ UNCHANGED <<call, ret, sweep>>

play ==
    /\ state' = [state EXCEPT !.isPlaying = TRUE]
    /\ timeAccumulator' = 0
    /\ Record("play")
    /\ UNCHANGED <<lastTimeSet, call, ret, sweep>>

\* with isPlaying false the effect of useAnimationFrame cancels the frame
\* request and clears lastTimeRef
pause ==
    /\ state' = [state EXCEPT !.isPlaying = FALSE]
    /\ lastTimeSet' = FALSE
    /\ Record("pause")
    /\ UNCHANGED <<timeAccumulator, call, ret, sweep>>

\* mutant: reset also restores the default Eb/N0
Mut_reset ==
    /\ state' = [InitialState(state.scheme, Db(10)) EXCEPT !.playbackSpeed = state.playbackSpeed]
    /\ timeAccumulator' = 0
    /\ lastTimeSet' = FALSE
    /\ Record("reset")
    /\ UNCHANGED <<call, ret, sweep>>

reset ==
    /\ state' = [state EXCEPT
                    !.symbolCount = 0,
                    !.bitCount = 0,
                    !.bitErrorCount = 0,
                    !.recentSymbols = <<>>,
                    !.currentSymbols = <<>>,
                    !.currentBits = <<>>,
                    !.noisySymbols = <<>>,
                    !.isPlaying = FALSE]
    /\ timeAccumulator' = 0
    /\ lastTimeSet' = FALSE
    /\ Record("reset")
    /\ UNCHANGED <<call, ret, sweep>>

\* mutant: setScheme changes the scheme and keeps the counters
Mut_setScheme ==
    /\ \E scheme \in Schemes :
          state' = [state EXCEPT
                      !.scheme = scheme,
                      !.recentSymbols = <<>>,
                      !.currentSymbols = <<>>,
                      !.currentBits = <<>>,
                      !.noisySymbols = <<>>]
    /\ Record("setScheme")
    /\ UNCHANGED <<timeAccumulator, lastTimeSet, call, ret, sweep>>

setScheme ==
    /\ \E scheme \in Schemes :
          state' = [state EXCEPT
                      !.scheme = scheme,
                      !.symbolCount = 0,
                      !.bitCount = 0,
                      !.bitErrorCount = 0,
                      !.recentSymbols = <<>>,
                      !.currentSymbols = <<>>,
                      !.currentBits = <<>>,
                      !.noisySymbols = <<>>]
    /\ Record("setScheme")
    /\ UNCHANGED <<timeAccumulator, lastTimeSet, call, ret, sweep>>

\* mutant: setSnrDb clears the statistics as setScheme does
Mut_setSnrDb ==
    /\ \E snrDb \in SnrValues :
          state' = [state EXCEPT
                      !.snrDb = snrDb,
                      !.symbolCount = 0,
                      !.bitCount = 0,
                      !.bitErrorCount = 0,
                      !.recentSymbols = <<>>]
    /\ Record("setSnrDb")
    /\ UNCHANGED <<timeAccumulator, lastTimeSet, call, ret, sweep>>

setSnrDb ==
    /\ \E snrDb \in SnrValues : state' = [state EXCEPT !.snrDb = snrDb]
    /\ Record("setSnrDb")
    /\ UNCHANGED <<timeAccumulator, lastTimeSet, call, ret, sweep>>

setPlaybackSpeed ==
    /\ \E speed \in PlaybackSpeeds : state' = [state EXCEPT !.playbackSpeed = speed]
    /\ Record("setPlaybackSpeed")
    /\ UNCHANGED <<timeAccumulator, lastTimeSet, call, ret, sweep>>

\* no call of a pure function is in progress
NoCall == [fn |-> "none"]

\* no sweep point is being computed
NoSweep == [pc |-> "idle"]

SessionIdle ==
    /\ state = InitialState("QPSK", Db(10))
    /\ timeAccumulator = 0
    /\ lastTimeSet = FALSE
    /\ lastOp = "none"
    /\ stateBefore = state

Init ==
    /\ \E initialScheme \in Schemes, initialSnrDb \in SnrValues :
          state = InitialState(initialScheme, initialSnrDb)
    /\ timeAccumulator = 0
    /\ lastTimeSet = FALSE
    /\ lastOp = "none"
    /\ stateBefore = state
    /\ call = NoCall
    /\ ret = <<>>
    /\ sweep = NoSweep

Next ==
    \/ step
    \/ animationFrame
    \/ play
    \/ pause
    \/ reset
    \/ setScheme
    \/ setSnrDb
    \/ setPlaybackSpeed

Spec == Init /\ [][Next]_vars

----------------------------------------------------------------------------
(* A long session: enough steps to fill recentSymbols and go past its cap. *)

\* the steps a long session takes
MaxLongSteps == 27

\* the first step of a long session and the steps that fill the last places
\* of recentSymbols or go past them draw any bits and noise of the model;
\* the steps between draw the second pattern of each
AnyDraw(st) ==
    \/ st.symbolCount < WAVEFORM_SYMBOLS
    \/ st.symbolCount + WAVEFORM_SYMBOLS >= MAX_RECENT_SYMBOLS

MiddleBits == <<0, 1, 1, 1, 0>>

MiddleNoise ==
    <<[I |-> NZero, Q |-> NZero], [I |-> Num(-2), Q |-> NZero], [I |-> NZero, Q |-> Num(1)]>>

\* step() in a long session
stepLong ==
    /\ state.symbolCount < MaxLongSteps * WAVEFORM_SYMBOLS
    /\ \E bitPattern \in BitPatterns, pattern \in NoisePatterns :
          /\ AnyDraw(state) \/ (bitPattern = MiddleBits /\ pattern = MiddleNoise)
          /\ state' = simulateStep(state, WAVEFORM_SYMBOLS,
                                   Cycle(bitPattern,
                                         WAVEFORM_SYMBOLS * BITS_PER_SYMBOL(state.scheme)),
                                   Cycle(pattern, WAVEFORM_SYMBOLS))
    /\ Record("step")
    /\ UNCHANGED <<timeAccumulator, lastTimeSet, call, ret, sweep>>

NextLong ==
    \/ stepLong
    \/ reset
    \/ setScheme

InitLong ==
    /\ SessionIdle
    /\ call = NoCall
    /\ ret = <<>>
    /\ sweep = NoSweep

SpecLong == InitLong /\ [][NextLong]_vars

----------------------------------------------------------------------------
(* Calls of the pure functions of utils/modulation.ts.                     *)

CallGenerateConstellation ==
    /\ call = NoCall
    /\ \E scheme \in Schemes :
        /\ call' = [fn |-> "generateConstellation", scheme |-> scheme]
        /\ ret' = generateConstellation(scheme)
    /\ UNCHANGED <<sessionVars, sweep>>

CallModulateBits ==
    /\ call = NoCall
    /\ \E constellation \in TestConstellations, bits \in BitSeqs(MaxBits) :
        /\ call' = [fn |-> "modulateBits", bits |-> bits, constellation |-> constellation]
        /\ ret' = modulateBits(bits, constellation)
    /\ UNCHANGED <<sessionVars, sweep>>

CallDemodulate ==
    /\ call = NoCall
    /\ \E constellation \in Generated :
        \E received \in ReceivedInputs(constellation) :
            /\ call' = [fn |-> "demodulate", received |-> received,
                        constellation |-> constellation]
            /\ ret' = demodulate(received, constellation)
    /\ UNCHANGED <<sessionVars, sweep>>

\* the symbol sequences handed to addAWGN: up to two of the first points
SymbolInputs(constellation) ==
    LET n == Min(MaxProbe, Len(constellation))
        points == {[I |-> constellation[i].I, Q |-> constellation[i].Q] : i \in 1..n}
    IN  {<<>>} \cup {<<x>> : x \in points} \cup {<<x, y>> : x \in points, y \in points}

\* addAWGN(symbols, ebN0Db, scheme) with the noise pairs z it draws
CallAddAWGN ==
    /\ call = NoCall
    /\ \E scheme \in Schemes, ebN0Db \in SnrValues :
        \E symbols \in SymbolInputs(generateConstellation(scheme)) :
            \E z \in [1..Len(symbols) -> NoiseSet] :
                /\ call' = [fn |-> "addAWGN", symbols |-> symbols, ebN0Db |-> ebN0Db,
                            scheme |-> scheme, z |-> z]
                /\ ret' = addAWGN(symbols, ebN0Db, scheme, z)
    /\ UNCHANGED <<sessionVars, sweep>>

\* demodulateWithInfo for a transmitted sample on or around the first points
\* of a non-empty constellation, received as it was sent or as a sample
\* around the first point
CallDemodulateWithInfo ==
    /\ call = NoCall
    /\ \E constellation \in TestConstellations :
        \E transmitted \in Samples(constellation, Min(MaxProbe, Len(constellation))) :
            \E received \in {transmitted} \cup Samples(constellation, 1) :
                /\ call' = [fn |-> "demodulateWithInfo", received |-> received,
                            transmitted |-> transmitted, constellation |-> constellation]
                /\ ret' = demodulateWithInfo(received, transmitted, constellation)
    /\ UNCHANGED <<sessionVars, sweep>>

\* the caller takes the result; the next call starts afresh
Return ==
    /\ call # NoCall
    /\ call.fn = "requiredEbN0ForBER" => ret.pc = "done"
    /\ call' = NoCall
    /\ ret' = <<>>
    /\ UNCHANGED <<sessionVars, sweep>>

InitFn ==
    /\ call = NoCall
    /\ ret = <<>>
    /\ SessionIdle
    /\ sweep = NoSweep

NextFn ==
    \/ CallGenerateConstellation
    \/ CallModulateBits
    \/ CallDemodulate
    \/ CallAddAWGN
    \/ CallDemodulateWithInfo
    \/ Return

SpecFn == InitFn /\ [][NextFn]_vars

----------------------------------------------------------------------------
(* utils/sweep.ts: one sweep point, simulateBerAtSnr, one batch at a time. *)

\* largest bitsTarget and batchSymbols handed to simulateBerAtSnr
MaxBitsTarget == 7

MaxBatchSymbols == 2

\* Math.ceil(a / b) for integers a >= 0, b > 0
\* mutant: the quotient rounded down
Mut_ceilDiv(a, b) == a \div b

ceilDiv(a, b) == (a + b - 1) \div b

\* mutant: every batch of the full size, the last one included
Mut_symbolsThisBatch(batchSymbols, remainingBits, bitsPerSymbol) == batchSymbols

symbolsThisBatch(batchSymbols, remainingBits, bitsPerSymbol) ==
    Min(batchSymbols, ceilDiv(remainingBits, bitsPerSymbol))

\* the batches a sweep point can run: transmit for each of them
SweepBatchKeys ==
    {<<scheme, snrDb, Cycle(bitPattern, n * BITS_PER_SYMBOL(scheme)), Cycle(noisePattern, n)>> :
        scheme \in Schemes, snrDb \in SnrValues, bitPattern \in BitPatterns,
        noisePattern \in NoisePatterns, n \in 1..MaxBatchSymbols}

SweepBatchTable ==
    {[key |-> key, batch |-> transmit(key[1], key[2], key[3], key[4])] :
        key \in SweepBatchKeys}

\* transmit(scheme, snrDb, bits, z), read from the table when it is there
sweepBatchOf(scheme, snrDb, bits, z) ==
    LET key == <<scheme, snrDb, bits, z>>
    IN  IF \E entry \in SweepBatchTable : entry.key = key
        THEN (CHOOSE entry \in SweepBatchTable : entry.key = key).batch
        ELSE transmit(scheme, snrDb, bits, z)

\* theoreticalBER(scheme, snrDb) of utils/theory.ts, kept as a term
theoreticalBERTerm(scheme, snrDb) == <<"theoreticalBER", scheme, snrDb>>

SweepCall ==
    /\ sweep = NoSweep
    /\ call = NoCall
    /\ \E scheme \in Tags, snrDb \in SnrValues,
          bitsTarget \in 0..MaxBitsTarget, batchSymbols \in 1..MaxBatchSymbols :
          sweep' = IF generateConstellationThrows(scheme)
                   THEN [ pc |-> "error",
                          scheme |-> scheme,
                          snrDb |-> snrDb,
                          bitsTarget |-> bitsTarget,
                          batchSymbols |-> batchSymbols ]
                   ELSE
                   [ pc |-> "loop",
                     scheme |-> scheme,
                     snrDb |-> snrDb,
                     bitsTarget |-> bitsTarget,
                     batchSymbols |-> batchSymbols,
                     bitCount |-> 0,
                     errorCount |-> 0,
                     batches |-> <<>> ]
    /\ UNCHANGED <<fnVars, sessionVars>>

\* mutant: the batch is also counted in the session's statistics
Mut_SweepBatch ==
    /\ sweep.pc = "loop"
    /\ sweep.bitCount < sweep.bitsTarget
    /\ LET bitsPerSymbol == BITS_PER_SYMBOL(sweep.scheme)
           remainingBits == sweep.bitsTarget - sweep.bitCount
           symbols == symbolsThisBatch(sweep.batchSymbols, remainingBits, bitsPerSymbol)
           bitsThisBatch == symbols * bitsPerSymbol
       IN  \E bits \in generateRandomBits(bitsThisBatch), pattern \in NoisePatterns :
              LET batch == sweepBatchOf(sweep.scheme, sweep.snrDb, bits, Cycle(pattern, symbols))
              IN  /\ ~batch.error
                  /\ sweep' = [sweep EXCEPT
                                  !.errorCount = sweep.errorCount + batch.stepErrors,
                                  !.bitCount = sweep.bitCount + bitsThisBatch,
                                  !.batches = Append(sweep.batches, symbols)]
                  /\ state' = [state EXCEPT !.bitCount = state.bitCount + bitsThisBatch]
    /\ UNCHANGED <<fnVars, timeAccumulator, lastTimeSet, lastOp, stateBefore>>

\* one pass of the while loop; batches is the history of the batch sizes
SweepBatch ==
    /\ sweep.pc = "loop"
    /\ sweep.bitCount < sweep.bitsTarget
    /\ LET bitsPerSymbol == BITS_PER_SYMBOL(sweep.scheme)
           remainingBits == sweep.bitsTarget - sweep.bitCount
           symbols == symbolsThisBatch(sweep.batchSymbols, remainingBits, bitsPerSymbol)
           bitsThisBatch == symbols * bitsPerSymbol
       IN  \E bits \in generateRandomBits(bitsThisBatch), pattern \in NoisePatterns :
              LET batch == sweepBatchOf(sweep.scheme, sweep.snrDb, bits, Cycle(pattern, symbols))
              IN  /\ ~batch.error
                  /\ sweep' = [sweep EXCEPT
                                  !.errorCount = sweep.errorCount + batch.stepErrors,
                                  !.bitCount = sweep.bitCount + bitsThisBatch,
                                  !.batches = Append(sweep.batches, symbols)]
    /\ UNCHANGED <<fnVars, sessionVars>>

SweepReturn ==
    /\ sweep.pc = "loop"
    /\ ~(sweep.bitCount < sweep.bitsTarget)
    /\ sweep' = [ pc |-> "done",
                  scheme |-> sweep.scheme,
                  bitsTarget |-> sweep.bitsTarget,
                  batchSymbols |-> sweep.batchSymbols,
                  batches |-> sweep.batches,
                  snrDb |-> sweep.snrDb,
                  simulatedBER |-> IF sweep.bitCount > 0
                                   THEN Divide(sweep.errorCount, sweep.bitCount)
                                   ELSE <<"ratio", 0, 1>>,
                  theoreticalBER |-> theoreticalBERTerm(sweep.scheme, sweep.snrDb),
                  bitCount |-> sweep.bitCount,
                  errorCount |-> sweep.errorCount ]
    /\ UNCHANGED <<fnVars, sessionVars>>

\* the caller takes the SweepPoint, or the error
SweepTaken ==
    /\ sweep.pc \in {"done", "error"}
    /\ sweep' = NoSweep
    /\ UNCHANGED <<fnVars, sessionVars>>

InitSweep ==
    /\ sweep = NoSweep
    /\ call = NoCall
    /\ ret = <<>>
    /\ SessionIdle

NextSweep ==
    \/ SweepCall
    \/ SweepBatch
    \/ SweepReturn
    \/ SweepTaken

SpecSweep == InitSweep /\ [][NextSweep]_vars

\* simulateBerAtSnr is synchronous: once called, its loop and its return
\* statement run without waiting for anything else
SpecSweepFair == SpecSweep /\ WF_vars(SweepBatch) /\ WF_vars(SweepReturn)

----------------------------------------------------------------------------
(* components/StatisticsPanel.tsx: runSweepAndExport computes sweep points *)
(* for the session's scheme while the session is paused and its manual     *)
(* controls stay available.                                                *)

\* bits asked of a sweep point that runs beside a session
MaxSharedBits == 2

\* points.push(simulateBerAtSnr(scheme, snr, bitsPerPoint)): the point is
\* asked for MaxSharedBits bits in batches of MaxBatchSymbols symbols
runSweepPoint ==
    /\ ~state.isPlaying
    /\ sweep = NoSweep
    /\ call = NoCall
    /\ \E snrDb \in SnrValues :
          sweep' = [ pc |-> "loop",
                     scheme |-> state.scheme,
                     snrDb |-> snrDb,
                     bitsTarget |-> MaxSharedBits,
                     batchSymbols |-> MaxBatchSymbols,
                     bitCount |-> 0,
                     errorCount |-> 0,
                     batches |-> <<>> ]
    /\ UNCHANGED <<fnVars, sessionVars>>

NextShared ==
    \/ step
    \/ reset
    \/ setScheme
    \/ setSnrDb
    \/ runSweepPoint
    \/ SweepBatch
    \/ SweepReturn
    \/ SweepTaken

SpecShared == Init /\ [][NextShared]_vars

----------------------------------------------------------------------------
(* utils/modulation.ts: bit error counting on arrays, and the calls of the *)
(* utility functions.                                                      *)

\* longest bit array or bit string handed to the counting functions
MaxCountLen == 3

\* mutant: no length check when the received input is the longer one
Mut_countBitErrors(transmitted, received) ==
    IF Len(transmitted) > Len(received)
    THEN [error |-> TRUE, errors |-> 0]
    ELSE [error |-> FALSE,
          errors |-> countLoop(transmitted, SubSeq(received, 1, Len(transmitted)), 1)]

countBitErrors(transmitted, received) ==
    IF Len(transmitted) # Len(received)
    THEN [error |-> TRUE, errors |-> 0]
    ELSE [error |-> FALSE, errors |-> countLoop(transmitted, received, 1)]

CallCountBitErrors ==
    /\ call = NoCall
    /\ sweep = NoSweep
    /\ \E transmitted \in BitSeqs(MaxCountLen), received \in BitSeqs(MaxCountLen) :
        /\ call' = [fn |-> "countBitErrors",
                    transmitted |-> transmitted, received |-> received]
        /\ ret' = countBitErrors(transmitted, received)
    /\ UNCHANGED <<sessionVars, sweep>>

CallCountBitErrorsFromStrings ==
    /\ call = NoCall
    /\ sweep = NoSweep
    /\ \E a \in BitSeqs(MaxCountLen), b \in BitSeqs(MaxCountLen) :
        /\ call' = [fn |-> "countBitErrorsFromStrings",
                    transmitted |-> join(a), received |-> join(b)]
        /\ ret' = countBitErrorsFromStrings(join(a), join(b))
    /\ UNCHANGED <<sessionVars, sweep>>

----------------------------------------------------------------------------
(* utils/math.ts: qFunction and qFunctionInverse.  A decimal is a sequence *)
(* of limbs in base 10^4, least significant first.  A value of qFunction   *)
(* is [kind, x, limbs]: kind "dec" is the decimal limbs * 10^-25, which is *)
(* what the formula gives where Math.exp and the division are exact        *)
(* (x = 0); kind "as" is the value of the approximation formula at x > 0;  *)
(* kind "oneMinusAs" is 1 minus that value.                                *)

Base == 10000

RECURSIVE convSum(_, _, _, _)
convSum(a, b, k, i) ==
    IF i > Len(a) THEN 0
    ELSE (IF (k - i + 1) \in 1..Len(b) THEN a[i] * b[k - i + 1] ELSE 0)
         + convSum(a, b, k, i + 1)

RECURSIVE mulFrom(_, _, _, _)
mulFrom(a, b, k, carry) ==
    IF k > Len(a) + Len(b) THEN <<>>
    ELSE LET v == convSum(a, b, k, 1) + carry
         IN  <<v % Base>> \o mulFrom(a, b, k + 1, v \div Base)

DecMul(a, b) == mulFrom(a, b, 1, 0)

RECURSIVE subFrom(_, _, _, _)
subFrom(a, b, k, borrow) ==
    IF k > Len(a) THEN <<>>
    ELSE LET d == a[k] - b[k] - borrow
         IN  <<IF d < 0 THEN d + Base ELSE d>>
             \o subFrom(a, b, k + 1, IF d < 0 THEN 1 ELSE 0)

\* a - b for a >= b of the same length
DecSub(a, b) == subFrom(a, b, 1, 0)

RECURSIVE lessFrom(_, _, _)
lessFrom(a, b, k) ==
    IF k = 0 THEN FALSE
    ELSE IF a[k] # b[k] THEN a[k] < b[k]
    ELSE lessFrom(a, b, k - 1)

DecLess(a, b) == lessFrom(a, b, Len(a))

ToLimbs(n) == <<n % Base, (n \div Base) % Base, n \div (Base * Base)>>

DecZero == <<0, 0, 0, 0, 0, 0, 0>>

\* 1 and 0.5 in units of 10^-25
DecOne == <<0, 0, 0, 0, 0, 0, 10>>

DecHalf == <<0, 0, 0, 0, 0, 0, 5>>

QDec(limbs) == [kind |-> "dec", x |-> 0, limbs |-> limbs]

\* 1 - v
OneMinus(v) ==
    IF v.kind = "dec" THEN QDec(DecSub(DecOne, v.limbs))
    ELSE [kind |-> "oneMinusAs", x |-> v.x, limbs |-> <<>>]

\* mutant: b5 one unit of the last place larger, 1.330274430
Mut_bCoefficients == <<319381530, -356563782, 1781477937, -1821255978, 1330274430>>

\* b1 .. b5 in units of 10^-9
bCoefficients == <<319381530, -356563782, 1781477937, -1821255978, 1330274429>>

\* 0.3989422804014327 in units of 10^-16
pdfCoefficient == <<4327, 401, 4228, 3989>>

\* t * (b1 + t * (b2 + t * (b3 + t * (b4 + t * b5)))) at t = 1
polynomialAtOne ==
    bCoefficients[1] + (bCoefficients[2] + (bCoefficients[3]
        + (bCoefficients[4] + bCoefficients[5])))

\* pdf * polynomial for 0 <= x <= 8
approximation(x) ==
    IF x = 0 THEN QDec(DecMul(pdfCoefficient, ToLimbs(polynomialAtOne)))
    ELSE [kind |-> "as", x |-> x, limbs |-> <<>>]

\* mutant: the underflow guard at 9 instead of 8
RECURSIVE Mut_qFunction(_)
Mut_qFunction(x) ==
    IF x < 0 THEN OneMinus(Mut_qFunction(0 - x))
    ELSE IF x > 9 THEN QDec(DecZero)
    ELSE approximation(x)

RECURSIVE qFunction(_)
qFunction(x) ==
    IF x < 0 THEN OneMinus(qFunction(0 - x))
    ELSE IF x > 8 THEN QDec(DecZero)
    ELSE approximation(x)

\* arguments of qFunction are the integers -MaxX .. MaxX
MaxX == 10

\* probabilities are n / PDenom for n in -MaxPOutside .. PDenom + MaxPOutside
PDenom == 8

MaxPOutside == 2

\* mutant: the bounds 0 and 1 themselves are let through
RECURSIVE Mut_qFunctionInverse(_)
Mut_qFunctionInverse(n) ==
    IF n < 0 \/ n > PDenom
    THEN [error |-> TRUE, calls |-> 1, negated |-> FALSE, p |-> n]
    ELSE IF 2 * n > PDenom /\ n < PDenom
    THEN LET inner == Mut_qFunctionInverse(PDenom - n)
         IN  [inner EXCEPT !.calls = inner.calls + 1, !.negated = ~inner.negated]
    ELSE [error |-> FALSE, calls |-> 1, negated |-> FALSE, p |-> n]

\* qFunctionInverse(n / PDenom).  The result of the ten Newton steps from
\* sqrt(-2 ln p) is kept as the p they were run for, negated or not; calls
\* counts the activations of the function.
RECURSIVE qFunctionInverse(_)
qFunctionInverse(n) ==
    IF n <= 0 \/ n >= PDenom
    THEN [error |-> TRUE, calls |-> 1, negated |-> FALSE, p |-> n]
    ELSE IF 2 * n > PDenom
    THEN LET inner == qFunctionInverse(PDenom - n)
         IN  [inner EXCEPT !.calls = inner.calls + 1, !.negated = ~inner.negated]
    ELSE [error |-> FALSE, calls |-> 1, negated |-> FALSE, p |-> n]

CallQFunction ==
    /\ call = NoCall
    /\ sweep = NoSweep
    /\ \E x \in (0 - MaxX)..MaxX :
        /\ call' = [fn |-> "qFunction", x |-> x]
        /\ ret' = qFunction(x)
    /\ UNCHANGED <<sessionVars, sweep>>

CallQFunctionInverse ==
    /\ call = NoCall
    /\ sweep = NoSweep
    /\ \E n \in (0 - MaxPOutside)..(PDenom + MaxPOutside) :
        /\ call' = [fn |-> "qFunctionInverse", p |-> n]
        /\ ret' = qFunctionInverse(n)
    /\ UNCHANGED <<sessionVars, sweep>>

----------------------------------------------------------------------------
(* utils/theory.ts: requiredEbN0ForBER.  An Eb/N0 of the search is an      *)
(* integer number of units of 5/1024 dB, in which -10 dB, 30 dB and every  *)
(* midpoint the search computes are exact.  theoreticalBER(scheme, .) does *)
(* not increase with Eb/N0, so a target BER is the pair of thresholds      *)
(* [above, below], in half units: the BER is above the target at the       *)
(* Eb/N0 values under above / 2, and below it at those over below / 2.     *)

DbUnits(db) == (db * 1024) \div 5

SearchLow == DbUnits(0 - 10)

SearchHigh == DbUnits(30)

\* a threshold under every Eb/N0 of the search, and one over every Eb/N0
Bottom == 2 * SearchLow - 1

Top == 2 * SearchHigh + 1

\* number of target BERs met strictly inside the search range
MaxTargets == 3

InteriorThresholds ==
    {2 * SearchLow + (k * 2 * (SearchHigh - SearchLow)) \div (MaxTargets + 1) + k :
        k \in 1..MaxTargets}

Thresholds == {Bottom, 2 * SearchLow, Top} \cup InteriorThresholds

\* a target met at one Eb/N0; the target 0, which the BER reaches and never
\* goes below; a NaN target, which no BER is above or below
Targets ==
    {[above |-> c, below |-> c] : c \in Thresholds}
    \cup {[above |-> c, below |-> Top] : c \in InteriorThresholds}
    \cup {[above |-> Bottom, below |-> Top]}

\* theoreticalBER(scheme, snr) > targetBER
berAbove(target, snr) == 2 * snr < target.above

\* theoreticalBER(scheme, snr) < targetBER
berBelow(target, snr) == 2 * snr > target.below

\* mutant: the search stops at an interval of 1 dB
Mut_searchContinues(low, high) == 5 * (high - low) > 1024

\* high - low > 0.01
searchContinues(low, high) == 500 * (high - low) > 1024

NoValue == <<"none", 0>>

\* the two checks before the search
requiredEbN0Entry(target) ==
    IF berAbove(target, SearchHigh)
    THEN [pc |-> "done", low |-> SearchLow, high |-> SearchHigh, passes |-> 0,
          value |-> PosInfinity]
    ELSE IF berBelow(target, SearchLow)
    THEN [pc |-> "done", low |-> SearchLow, high |-> SearchHigh, passes |-> 0,
          value |-> Db(SearchLow)]
    ELSE [pc |-> "loop", low |-> SearchLow, high |-> SearchHigh, passes |-> 0,
          value |-> NoValue]

CallRequiredEbN0ForBER ==
    /\ call = NoCall
    /\ sweep = NoSweep
    /\ \E scheme \in Schemes, target \in Targets :
        /\ call' = [fn |-> "requiredEbN0ForBER", scheme |-> scheme, target |-> target]
        /\ ret' = requiredEbN0Entry(target)
    /\ UNCHANGED <<sessionVars, sweep>>

\* mutant: the two branches of the pass exchanged
Mut_SearchPass ==
    /\ call # NoCall
    /\ call.fn = "requiredEbN0ForBER"
    /\ ret.pc = "loop"
    /\ searchContinues(ret.low, ret.high)
    /\ LET mid == (ret.low + ret.high) \div 2
       IN  ret' = IF berAbove(call.target, mid)
                  THEN [ret EXCEPT !.high = mid, !.passes = ret.passes + 1]
                  ELSE [ret EXCEPT !.low = mid, !.passes = ret.passes + 1]
    /\ UNCHANGED <<call, sessionVars, sweep>>

\* one pass of the binary search
SearchPass ==
    /\ call # NoCall
    /\ call.fn = "requiredEbN0ForBER"
    /\ ret.pc = "loop"
    /\ searchContinues(ret.low, ret.high)
    /\ LET mid == (ret.low + ret.high) \div 2
       IN  ret' = IF berAbove(call.target, mid)
                  THEN [ret EXCEPT !.low = mid, !.passes = ret.passes + 1]
                  ELSE [ret EXCEPT !.high = mid, !.passes = ret.passes + 1]
    /\ UNCHANGED <<call, sessionVars, sweep>>

SearchReturn ==
    /\ call # NoCall
    /\ call.fn = "requiredEbN0ForBER"
    /\ ret.pc = "loop"
    /\ ~searchContinues(ret.low, ret.high)
    /\ ret' = [ret EXCEPT !.pc = "done", !.value = Db((ret.low + ret.high) \div 2)]
    /\ UNCHANGED <<call, sessionVars, sweep>>

----------------------------------------------------------------------------
(* The operations that take a scheme tag, called with any tag.  A result   *)
(* is [error, value]: value is "number", or "NaN" when the arithmetic ran  *)
(* on the undefined BITS_PER_SYMBOL entry of an unknown tag.               *)

Thrown == [error |-> TRUE, value |-> "none"]

Returned(value) == [error |-> FALSE, value |-> value]

generateConstellationTagged(scheme) ==
    IF generateConstellationThrows(scheme) THEN Thrown ELSE Returned("number")

\* switch (scheme) ... default: throw
theoreticalBER(scheme, ebN0Db) ==
    IF scheme \notin Schemes THEN Thrown ELSE Returned("number")

\* esN0 = ebN0 * BITS_PER_SYMBOL[scheme], then switch (scheme) ... default: throw
theoreticalSER(scheme, ebN0Db) ==
    IF scheme \notin Schemes THEN Thrown ELSE Returned("number")

calculateNoiseVarianceTagged(ebN0Db, scheme) ==
    Returned(IF calculateNoiseVariance(ebN0Db, scheme) = "NaN" THEN "NaN" ELSE "number")

\* symbols.map: every received sample is symbol + stdDev * z, NaN when the
\* noise variance is
addAWGNTagged(symbols, ebN0Db, scheme) ==
    Returned(IF calculateNoiseVariance(ebN0Db, scheme) = "NaN" /\ Len(symbols) > 0
             THEN "NaN" ELSE "number")

\* ebN0Db + 10 * Math.log10(BITS_PER_SYMBOL[scheme])
calculateEsN0(ebN0Db, scheme) ==
    Returned(IF scheme \notin Schemes THEN "NaN" ELSE "number")

\* esN0Db - 10 * Math.log10(BITS_PER_SYMBOL[scheme])
esN0ToEbN0(esN0Db, scheme) ==
    Returned(IF scheme \notin Schemes THEN "NaN" ELSE "number")

TaggedOperations ==
    {"generateConstellation", "theoreticalBER", "theoreticalSER",
     "calculateNoiseVariance", "addAWGN", "calculateEsN0", "esN0ToEbN0"}

CallTagged ==
    /\ call = NoCall
    /\ sweep = NoSweep
    /\ \E op \in TaggedOperations, scheme \in Tags, snrDb \in SnrValues,
          symbols \in {<<>>, <<[I |-> Num(1), Q |-> NZero]>>} :
        /\ call' = [fn |-> "tagged", op |-> op, scheme |-> scheme, snrDb |-> snrDb,
                    symbols |-> IF op = "addAWGN" THEN symbols ELSE <<>>]
        /\ ret' = CASE op = "generateConstellation" -> generateConstellationTagged(scheme)
                    [] op = "theoreticalBER" -> theoreticalBER(scheme, snrDb)
                    [] op = "theoreticalSER" -> theoreticalSER(scheme, snrDb)
                    [] op = "calculateNoiseVariance" ->
                           calculateNoiseVarianceTagged(snrDb, scheme)
                    [] op = "addAWGN" -> addAWGNTagged(symbols, snrDb, scheme)
                    [] op = "calculateEsN0" -> calculateEsN0(snrDb, scheme)
                    [] op = "esN0ToEbN0" -> esN0ToEbN0(snrDb, scheme)
    /\ UNCHANGED <<sessionVars, sweep>>

NextUtil ==
    \/ CallCountBitErrors
    \/ CallCountBitErrorsFromStrings
    \/ CallQFunction
    \/ CallQFunctionInverse
    \/ CallRequiredEbN0ForBER
    \/ SearchPass
    \/ SearchReturn
    \/ CallTagged
    \/ Return
    \/ SweepCall
    \/ SweepBatch
    \/ SweepReturn
    \/ SweepTaken

SpecUtil == InitSweep /\ [][NextUtil]_vars

\* the calls of requiredEbN0ForBER alone
NextSearch ==
    \/ CallRequiredEbN0ForBER
    \/ SearchPass
    \/ SearchReturn
    \/ Return

\* requiredEbN0ForBER is synchronous: once called, the passes of its loop
\* and its return statement run without waiting for anything else
SpecSearchFair ==
    InitSweep /\ [][NextSearch]_vars /\ WF_vars(SearchPass) /\ WF_vars(SearchReturn)

----------------------------------------------------------------------------
(* Helpers of the properties.                                              *)

RECURSIVE Pow2(_)
Pow2(k) == IF k = 0 THEN 1 ELSE 2 * Pow2(k - 1)

\* all labels of length k
Labels(k) == {join(b) : b \in {t \in BitSeqs(k) : Len(t) = k}}

Hamming(a, b) == Cardinality({i \in 1..Len(a) : a[i] # b[i]})

Coord(point) == [I |-> point.I, Q |-> point.Q]

\* the smallest squared distance between two different points
IsMinDistance(constellation, d) ==
    /\ \E i, j \in 1..Len(constellation) :
          i # j /\ complexDistanceSquared(constellation[i], constellation[j]) = d
    /\ \A i, j \in 1..Len(constellation) :
          i # j => ~NLess(complexDistanceSquared(constellation[i], constellation[j]), d)

\* nearest neighbours: on a circle the points consecutive in angle (the last
\* and the first included), on a square grid the points one level apart along
\* one axis at the same level of the other
Adjacent(constellation, i, j) ==
    /\ i # j
    /\ IsMinDistance(constellation, complexDistanceSquared(constellation[i], constellation[j]))

\* the groups of k bits that modulateBits looks up
Groups(bits, k) == [i \in 1..(Len(bits) \div k) |-> join(SubSeq(bits, (i - 1) * k + 1, i * k))]

HasLabel(constellation, label) == \E n \in 1..Len(constellation) : constellation[n].bits = label

----------------------------------------------------------------------------
(* Properties of the pure functions, checked under SpecFn.                 *)

\* C1: generateConstellation(scheme) has 2^BITS_PER_SYMBOL[scheme] points, every
\* label is a string over {0,1} of length BITS_PER_SYMBOL[scheme], and every bit
\* string of that length labels exactly one point.
C1_FullAlphabet ==
    call.fn = "generateConstellation" =>
        LET k == BITS_PER_SYMBOL(call.scheme)
        IN  /\ Len(ret) = Pow2(k)
            /\ \A i \in 1..Len(ret) :
                  /\ Len(ret[i].bits) = k
                  /\ \A j \in 1..k : ret[i].bits[j] \in {"0", "1"}
            /\ \A i, j \in 1..Len(ret) : i # j => ret[i].bits # ret[j].bits
            /\ \A label \in Labels(k) :
                  Cardinality({i \in 1..Len(ret) : ret[i].bits = label}) = 1

C1_Witness ==
    /\ call.fn = "generateConstellation"
    /\ call.scheme = "64-QAM"
    /\ Len(ret) = 64
    /\ ret[64].bits = <<"1", "0", "0", "1", "0", "0">>

\* C2: without noise the round trip is exact: demodulate([p], constellation)
\* is [p.bits] for every ideal point p of every generated constellation.
C2_RoundTrip ==
    call.fn = "demodulate" =>
        \A n \in 1..Len(call.constellation) :
            call.received = <<Coord(call.constellation[n])>>
                => ret = <<call.constellation[n].bits>>

C2_Witness ==
    /\ call.fn = "demodulate"
    /\ call.constellation = generate64QAM
    /\ call.received = <<Coord(generate64QAM[64])>>
    /\ ret = <<generate64QAM[64].bits>>

\* C3: Gray coding: in every generated constellation two adjacent points carry
\* labels that differ in exactly one bit position.
C3_GrayCoding ==
    call.fn = "generateConstellation" =>
        \A i, j \in 1..Len(ret) :
            Adjacent(ret, i, j) => Hamming(ret[i].bits, ret[j].bits) = 1

\* the wrap-around pair of 8-PSK (315 degrees and 0 degrees) is adjacent
C3_Witness ==
    /\ call.fn = "generateConstellation"
    /\ call.scheme = "8-PSK"
    /\ Adjacent(ret, 8, 1)
    /\ ~Adjacent(ret, 1, 3)
    /\ Hamming(ret[8].bits, ret[1].bits) = 1

\* C9: modulateBits returns floor(|bits| / k) symbols, the i-th with the
\* coordinates of the point labelled by the i-th group of k bits; the
\* |bits| mod k trailing bits are dropped, without an error.
C9_ModulateGroups ==
    call.fn = "modulateBits" =>
        LET k == Len(call.constellation[1].bits)
            groups == Groups(call.bits, k)
        IN  /\ ~ret.error =>
                  /\ Len(ret.symbols) = Len(call.bits) \div k
                  /\ \A i \in 1..Len(ret.symbols) :
                        \E n \in 1..Len(call.constellation) :
                            /\ call.constellation[n].bits = groups[i]
                            /\ ret.symbols[i] = Coord(call.constellation[n])
            /\ (\A i \in 1..Len(groups) : HasLabel(call.constellation, groups[i]))
                  => ~ret.error

C9_Witness ==
    /\ call.fn = "modulateBits"
    /\ call.constellation = generate8PSK
    /\ call.bits = <<0, 1, 1, 1, 0, 0, 1, 0>>
    /\ ~ret.error
    /\ ret.symbols = <<Coord(generate8PSK[3]), Coord(generate8PSK[8])>>

\* C10: modulateBits raises an error, and returns no symbols, exactly when a
\* complete bit group has no matching label (no default point stands in); with
\* a generated constellation and bits over {0,1} the error does not occur.
C10_InvalidPattern ==
    call.fn = "modulateBits" =>
        LET k == Len(call.constellation[1].bits)
            groups == Groups(call.bits, k)
        IN  /\ ret.error <=> \E i \in 1..Len(groups) : ~HasLabel(call.constellation, groups[i])
            /\ ret.error => ret.symbols = <<>>
            /\ call.constellation \in Generated => ~ret.error

\* a 16-QAM alphabet without its last point "1010": the second group has no match
C10_Witness ==
    /\ call.fn = "modulateBits"
    /\ call.constellation = Without(generate16QAM, 16)
    /\ call.bits = <<0, 0, 0, 0, 1, 0, 1, 0>>
    /\ ret.error

----------------------------------------------------------------------------
(* Properties of the session, checked under Spec.                          *)

Counters(st) == <<st.symbolCount, st.bitCount, st.bitErrorCount>>

\* C4: from one state to the next symbolCount, bitCount and bitErrorCount never
\* decrease, except in a reset or setScheme transition, where all three
\* become 0.
C4_CountersMonotone ==
    IF lastOp \in {"reset", "setScheme"}
    THEN Counters(state) = <<0, 0, 0>>
    ELSE /\ state.symbolCount >= stateBefore.symbolCount
         /\ state.bitCount >= stateBefore.bitCount
         /\ state.bitErrorCount >= stateBefore.bitErrorCount

\* a second step that adds no error to the errors of the first
C4_Witness ==
    /\ lastOp = "step"
    /\ stateBefore.bitErrorCount > 0
    /\ state.bitErrorCount = stateBefore.bitErrorCount
    /\ state.symbolCount = 2 * WAVEFORM_SYMBOLS

\* C5: reset() sets the three counters to 0 and leaves scheme and snrDb as they
\* were before the call.
C5_ResetKeepsSettings ==
    lastOp = "reset" =>
        /\ Counters(state) = <<0, 0, 0>>
        /\ state.scheme = stateBefore.scheme
        /\ state.snrDb = stateBefore.snrDb

C5_Witness ==
    /\ lastOp = "reset"
    /\ stateBefore.bitErrorCount > 0
    /\ stateBefore.scheme = "64-QAM"
    /\ stateBefore.snrDb = PosInfinity
    /\ state.scheme = "64-QAM"

\* C6: setScheme(s) sets the three counters to 0 for every s, the current
\* scheme included; setSnrDb(x) changes snrDb and nothing else: the counters,
\* the scheme and the sample buffers stay as they were.
C6_SchemeResetsSnrDoesNot ==
    /\ lastOp = "setScheme" => Counters(state) = <<0, 0, 0>>
    /\ lastOp = "setSnrDb" => state = [stateBefore EXCEPT !.snrDb = state.snrDb]

C6_Witness ==
    /\ lastOp = "setSnrDb"
    /\ state.snrDb # stateBefore.snrDb
    /\ state.bitErrorCount > 0
    /\ Len(state.recentSymbols) = 2 * WAVEFORM_SYMBOLS
    /\ Len(state.noisySymbols) = WAVEFORM_SYMBOLS

\* a change to the scheme already selected, after a step
C6_WitnessSameScheme ==
    /\ lastOp = "setScheme"
    /\ state.scheme = stateBefore.scheme
    /\ stateBefore.bitCount > 0

\* C7: currentBER is defined in every state: bitErrorCount / bitCount when
\* bitCount > 0, and 0 when bitCount = 0; no state divides by zero.
C7_CurrentBERDefined ==
    LET ber == currentBER(state)
    IN  /\ ber[1] = "ratio"
        /\ ber[3] > 0
        /\ state.bitCount > 0 => ber[2] * state.bitCount = state.bitErrorCount * ber[3]
        /\ state.bitCount = 0 => ber[2] = 0

\* no bits after a reset that followed a step with errors
C7_Witness ==
    /\ lastOp = "reset"
    /\ stateBefore.bitErrorCount > 0
    /\ state.bitCount = 0
    /\ currentBER(state) = <<"ratio", 0, 1>>
    /\ currentBER(stateBefore) = <<"ratio", stateBefore.bitErrorCount, stateBefore.bitCount>>

----------------------------------------------------------------------------
(* Properties of the sweep point, checked under SpecSweep.                 *)

\* C8 as stated: for every positive bitsTarget the returned bitCount equals
\* bitsTarget exactly.
C8_ExactTarget ==
    (sweep.pc = "done" /\ sweep.bitsTarget >= 1) => sweep.bitCount = sweep.bitsTarget

\* C8, amended: batches are whole symbols, so the cumulative bit count is a
\* multiple of k that stays below bitsTarget + k, and the returned bitCount is the
\* smallest multiple of k at or above bitsTarget: bitsTarget itself when k
\* divides it.
C8_RoundsUpToSymbol ==
    (sweep.pc \in {"loop", "done"} /\ sweep.bitsTarget >= 1) =>
        LET k == BITS_PER_SYMBOL(sweep.scheme)
        IN  /\ sweep.bitCount % k = 0
            /\ sweep.bitCount - k < sweep.bitsTarget
            /\ sweep.pc = "done" =>
                  /\ sweep.bitCount >= sweep.bitsTarget
                  /\ (sweep.bitsTarget % k = 0 => sweep.bitCount = sweep.bitsTarget)

\* 8-PSK, 7 bits asked for, batches of 2 symbols then 1: 9 bits returned
C8_Witness ==
    /\ sweep.pc = "done"
    /\ sweep.scheme = "8-PSK"
    /\ sweep.bitsTarget = 7
    /\ sweep.batches = <<2, 1>>
    /\ sweep.bitCount = 9

----------------------------------------------------------------------------
(* Properties of the utility functions, checked under SpecUtil.            *)

\* C11: on inputs of equal length the count is symmetric in its two arguments
\* and is 0 exactly when the inputs are identical, for countBitErrors and for
\* countBitErrorsFromStrings.
C11_HammingDistance ==
    /\ (call.fn = "countBitErrors" /\ Len(call.transmitted) = Len(call.received)) =>
          /\ ~ret.error
          /\ ret = countBitErrors(call.received, call.transmitted)
          /\ (ret.errors = 0 <=> call.transmitted = call.received)
    /\ (call.fn = "countBitErrorsFromStrings"
            /\ Len(call.transmitted) = Len(call.received)) =>
          /\ ~ret.error
          /\ ret = countBitErrorsFromStrings(call.received, call.transmitted)
          /\ (ret.errors = 0 <=> call.transmitted = call.received)

C11_Witness ==
    /\ call.fn = "countBitErrors"
    /\ call.transmitted = <<0, 0, 1>>
    /\ call.received = <<0, 1, 0>>
    /\ ret.errors = 2

\* C12: inputs of different lengths make both counting functions raise an
\* error, whichever input is the longer one; no count is returned.
C12_LengthMismatch ==
    (call.fn \in {"countBitErrors", "countBitErrorsFromStrings"}
        /\ Len(call.transmitted) # Len(call.received)) =>
        ret.error

C12_Witness ==
    /\ call.fn = "countBitErrorsFromStrings"
    /\ call.transmitted = <<"1", "0">>
    /\ call.received = <<"1", "0", "1">>
    /\ ret.error

\* C13 as stated: every operation that takes a scheme tag raises an error for a
\* tag that is none of the five schemes, simulateBerAtSnr included.
C13_UnknownTagRaises ==
    /\ (call.fn = "tagged" /\ call.scheme \notin Schemes) => ret.error
    /\ (sweep.pc # "idle" /\ sweep.scheme \notin Schemes) => sweep.pc = "error"

\* C15: requiredEbN0ForBER returns +Infinity when the BER at 30 dB is above the
\* target, else -10 dB when the BER at -10 dB is below the target, else the
\* midpoint of an interval inside [-10, 30] dB that is at most 0.01 dB wide and
\* was wider than that one pass earlier.
C15_RequiredEbN0 ==
    (call.fn = "requiredEbN0ForBER") =>
        /\ SearchLow <= ret.low /\ ret.low < ret.high /\ ret.high <= SearchHigh
        /\ ret.pc = "done" =>
              IF berAbove(call.target, SearchHigh) THEN ret.value = PosInfinity
              ELSE IF berBelow(call.target, SearchLow) THEN ret.value = Db(SearchLow)
              ELSE /\ ret.value[1] = "fin"
                   /\ SearchLow <= ret.value[2] /\ ret.value[2] <= SearchHigh
                   /\ ret.low <= ret.value[2] /\ ret.value[2] <= ret.high
                   /\ 500 * (ret.high - ret.low) <= 1024
                   /\ 500 * 2 * (ret.high - ret.low) > 1024

C15_Witness ==
    /\ call.fn = "requiredEbN0ForBER"
    /\ ret.pc = "done"
    /\ ret.passes = 12
    /\ call.target.above = call.target.below
    /\ SearchLow < ret.low /\ ret.high < SearchHigh
    /\ ret.value = Db(ret.low + 1)

\* C16: qFunctionInverse(p) raises an error exactly for p <= 0 and p >= 1, in
\* its first activation; for 0 < p < 1 it returns without error, with one
\* further activation, on 1 - p, exactly when p > 0.5.
C16_InverseDomain ==
    call.fn = "qFunctionInverse" =>
        /\ ret.error <=> (call.p <= 0 \/ call.p >= PDenom)
        /\ ret.error => ret.calls = 1
        /\ ret.calls <= 2
        /\ ~ret.error =>
              /\ ret.negated <=> 2 * call.p > PDenom
              /\ ret.calls = IF 2 * call.p > PDenom THEN 2 ELSE 1
              /\ ret.p = IF 2 * call.p > PDenom THEN PDenom - call.p ELSE call.p

C16_Witness ==
    /\ call.fn = "qFunctionInverse"
    /\ call.p = 6
    /\ ~ret.error
    /\ ret.calls = 2
    /\ ret.negated
    /\ ret.p = 2

\* C17 as stated: qFunction(0) is 0.5 exactly.
C17_ExactHalf ==
    (call.fn = "qFunction" /\ call.x = 0) => ret = QDec(DecHalf)

\* C17, amended: qFunction(0) is 0.3989422804014327 * (b1 + b2 + b3 + b4 + b5)
\* = 0.4999999994751913575626472, under 0.5 by less than 10^-9.
C17_NearHalf ==
    (call.fn = "qFunction" /\ call.x = 0) =>
        /\ ret = QDec(<<6472, 7562, 9135, 4751, 9999, 9999, 4>>)
        /\ DecLess(ret.limbs, DecHalf)
        /\ DecLess(DecSub(DecHalf, ret.limbs), <<0, 0, 0, 0, 1, 0, 0>>)

C17_Witness ==
    /\ call.fn = "qFunction"
    /\ call.x = 0
    /\ ret.kind = "dec"
    /\ ret.limbs[7] = 4

\* C18 as stated: qFunction(-x) = 1 - qFunction(x) for every x in [0, 6],
\* qFunction(x) = 0 for x > 8 and 1 for x < -8.
C18_SymmetryFromZero ==
    call.fn = "qFunction" =>
        /\ call.x \in 0..6 => qFunction(0 - call.x) = OneMinus(ret)
        /\ call.x > 8 => ret = QDec(DecZero)
        /\ call.x < 0 - 8 => ret = QDec(DecOne)

\* C18, amended: qFunction(-x) = 1 - qFunction(x) for every x in (0, 6]; at
\* x = 0 both sides of the test x < 0 give qFunction(0), which is under
\* 1 - qFunction(0) by less than 2 * 10^-9; qFunction(x) = 0 for x > 8 and 1
\* for x < -8.
C18_SymmetryAwayFromZero ==
    call.fn = "qFunction" =>
        /\ call.x \in 1..6 => qFunction(0 - call.x) = OneMinus(ret)
        /\ call.x = 0 =>
              /\ qFunction(0 - call.x) = ret
              /\ DecLess(ret.limbs, OneMinus(ret).limbs)
              /\ DecLess(DecSub(OneMinus(ret).limbs, ret.limbs), <<0, 0, 0, 0, 2, 0, 0>>)
        /\ call.x > 8 => ret = QDec(DecZero)
        /\ call.x < 0 - 8 => ret = QDec(DecOne)

C18_Witness ==
    /\ call.fn = "qFunction"
    /\ call.x = 0 - 6
    /\ ret = [kind |-> "oneMinusAs", x |-> 6, limbs |-> <<>>]

----------------------------------------------------------------------------
(* Properties of sweep points computed beside a session, checked under     *)
(* SpecShared.                                                             *)

RECURSIVE SumSeq(_)
SumSeq(seq) == IF seq = <<>> THEN 0 ELSE Head(seq) + SumSeq(Tail(seq))

\* C14: a step of a sweep point leaves the session's state as it is, a
\* session control leaves the sweep point as it is, and the sweep point's
\* bit count is made of its own batches only, starting from 0.
C14_SweepKeepsOwnCounters ==
    [][ /\ sweep' # sweep => UNCHANGED sessionVars
        /\ sessionVars' # sessionVars => sweep' = sweep
        /\ sweep'.pc \in {"loop", "done"} =>
              /\ sweep'.bitCount = SumSeq(sweep'.batches) * BITS_PER_SYMBOL(sweep'.scheme)
              /\ sweep'.errorCount <= sweep'.bitCount ]_vars

\* a sweep point under way for one scheme while the session has stepped after
\* changing to another
C14_Witness ==
    /\ sweep.pc = "loop"
    /\ Len(sweep.batches) = 1
    /\ state.scheme # sweep.scheme
    /\ lastOp = "step"
    /\ state.bitCount > 0

----------------------------------------------------------------------------
(* Properties of the constellations' geometry, checked under SpecFn.       *)

RECURSIVE EnergyRange(_, _, _)
EnergyRange(constellation, lo, hi) ==
    IF lo > hi THEN NZero
    ELSE IF lo = hi
         THEN NAdd(NMul(constellation[lo].I, constellation[lo].I),
                   NMul(constellation[lo].Q, constellation[lo].Q))
         ELSE LET mid == (lo + hi) \div 2
              IN  NAdd(EnergyRange(constellation, lo, mid),
                       EnergyRange(constellation, mid + 1, hi))

SumEnergy(constellation, n) == EnergyRange(constellation, 1, n)

\* C19: the mean of I^2 + Q^2 over the points of generateConstellation(scheme)
\* is 1: the squared level coordinates sum to the point count times 1/scale^2
\* (16 * 10 for 16-QAM, 64 * 42 for 64-QAM).
C19_UnitMeanEnergy ==
    call.fn = "generateConstellation" =>
        /\ SumEnergy(ret, Len(ret)) = Num(Len(ret) * ScaleInvSq(call.scheme))
        /\ call.scheme = "16-QAM" => SumEnergy(ret, Len(ret)) = Num(16 * 10)
        /\ call.scheme = "64-QAM" => SumEnergy(ret, Len(ret)) = Num(64 * 42)

C19_Witness ==
    /\ call.fn = "generateConstellation"
    /\ call.scheme = "8-PSK"
    /\ SumEnergy(ret, 8) = Num(32)
    /\ ret[2].I = <<0, 1>>

\* C20: generateConstellation('QPSK') returns "00" in quadrant I, "01" in
\* quadrant II, "11" in quadrant III and "10" in quadrant IV, in that order,
\* every coordinate of magnitude 1/sqrt(2).
C20_QPSKQuadrants ==
    (call.fn = "generateConstellation" /\ call.scheme = "QPSK") =>
        /\ Len(ret) = 4
        /\ <<ret[1].bits, ret[2].bits, ret[3].bits, ret[4].bits>>
              = << <<"0", "0">>, <<"0", "1">>, <<"1", "1">>, <<"1", "0">> >>
        /\ <<NSign(ret[1].I), NSign(ret[1].Q)>> = <<1, 1>>
        /\ <<NSign(ret[2].I), NSign(ret[2].Q)>> = <<-1, 1>>
        /\ <<NSign(ret[3].I), NSign(ret[3].Q)>> = <<-1, -1>>
        /\ <<NSign(ret[4].I), NSign(ret[4].Q)>> = <<1, -1>>
        /\ \A n \in 1..4 :
              /\ NMul(Num(2), NMul(ret[n].I, ret[n].I)) = Num(ScaleInvSq("QPSK"))
              /\ NMul(Num(2), NMul(ret[n].Q, ret[n].Q)) = Num(ScaleInvSq("QPSK"))

C20_Witness ==
    /\ call.fn = "generateConstellation"
    /\ call.scheme = "QPSK"
    /\ ret[3].bits = <<"1", "1">>
    /\ NSign(ret[3].I) = -1
    /\ NSign(ret[3].Q) = -1


\* C21: addAWGN returns one sample per input symbol, in the order of the
\* input; sample i is symbol i plus the noise sample drawn for symbol i, and
\* for a noise variance of 0 (Eb/N0 of +Infinity) sample i is symbol i; the
\* symbols handed in are the ones the caller still holds.
C21_OneNoisySamplePerSymbol ==
    call.fn = "addAWGN" =>
        /\ Len(ret) = Len(call.symbols)
        /\ \A i \in 1..Len(call.symbols) :
              /\ call.ebN0Db # PosInfinity =>
                    /\ ret[i].I = NAdd(call.symbols[i].I, call.z[i].I)
                    /\ ret[i].Q = NAdd(call.symbols[i].Q, call.z[i].Q)
              /\ call.ebN0Db = PosInfinity => ret[i] = call.symbols[i]

C21_Witness ==
    /\ call.fn = "addAWGN"
    /\ call.ebN0Db # PosInfinity
    /\ Len(call.symbols) = 2
    /\ call.z[1] # call.z[2]
    /\ call.z[2] # [I |-> NZero, Q |-> NZero]
    /\ ret[2] # call.symbols[2]


\* point number j is the first point of the constellation at the least
\* squared distance from the sample
FirstNearest(sample, constellation, j) ==
    /\ \A m \in 1..Len(constellation) :
          ~NLess(complexDistanceSquared(sample, constellation[m]),
                 complexDistanceSquared(sample, constellation[j]))
    /\ \A m \in 1..(j - 1) :
          NLess(complexDistanceSquared(sample, constellation[j]),
                complexDistanceSquared(sample, constellation[m]))

\* C22: demodulate returns one label per received sample, in the order of
\* the samples; each label is the label of a point at the least squared
\* Euclidean distance over the whole constellation, and among several such
\* points the one generated first.
C22_NearestFirstWins ==
    call.fn = "demodulate" =>
        /\ Len(ret) = Len(call.received)
        /\ \A i \in 1..Len(call.received) :
              \E j \in 1..Len(call.constellation) :
                  /\ FirstNearest(call.received[i], call.constellation, j)
                  /\ ret[i] = call.constellation[j].bits

\* a sample as close to a later point as to the one decided
C22_Witness ==
    /\ call.fn = "demodulate"
    /\ Len(call.received) = 2
    /\ \E j \in 1..Len(call.constellation), m \in 1..Len(call.constellation) :
          /\ j < m
          /\ FirstNearest(call.received[2], call.constellation, j)
          /\ complexDistanceSquared(call.received[2], call.constellation[m])
                = complexDistanceSquared(call.received[2], call.constellation[j])
          /\ ret[2] = call.constellation[j].bits


\* C23: for a sample s and a non-empty constellation c, symbolToBits(s, c)
\* is demodulate([s], c)[0], also when s is at the same distance from
\* several points; so demodulateWithInfo reports transmittedBits =
\* decodedBits and isError = false when the received sample is the
\* transmitted one.
C23_SymbolToBitsIsDemodulate ==
    call.fn = "demodulateWithInfo" =>
        /\ ret.isError = (ret.transmittedBits # ret.decodedBits)
        /\ call.received = call.transmitted =>
              /\ ret.transmittedBits = ret.decodedBits
              /\ ~ret.isError

\* the sample sent and received is at the same least distance from two points
C23_Witness ==
    /\ call.fn = "demodulateWithInfo"
    /\ call.received = call.transmitted
    /\ \E j \in 1..Len(call.constellation), m \in 1..Len(call.constellation) :
          /\ j < m
          /\ FirstNearest(call.transmitted, call.constellation, j)
          /\ complexDistanceSquared(call.transmitted, call.constellation[m])
                = complexDistanceSquared(call.transmitted, call.constellation[j])
          /\ ret.decodedBits = call.constellation[j].bits
    /\ ~ret.isError


\* the k-bit reflected Gray code of index i: bit j is b[j] xor b[j+1] of the
\* binary digits b of i
GrayLabel(i, k) ==
    [t \in 1..k |->
        IF ((i \div Pow2(k - t)) + (i \div Pow2(k - t + 1))) % 2 = 1 THEN "1" ELSE "0"]

\* the index of a coordinate among the levels of its axis, ascending from 0
LevelIndex(levels, x) == Cardinality({y \in levels : NLess(y, x)})

\* C24: in 16-QAM and 64-QAM the point at I-level index i and Q-level index
\* q, levels counted in ascending order, carries the label gray[i] followed
\* by gray[q]; points of one column (same I) share the first half of the
\* label and points of one row (same Q) share the second half.
C24_PerAxisGrayLabels ==
    (call.fn = "generateConstellation" /\ call.scheme \in {"16-QAM", "64-QAM"}) =>
        LET half == BITS_PER_SYMBOL(call.scheme) \div 2
            levelsI == {ret[n].I : n \in 1..Len(ret)}
            levelsQ == {ret[n].Q : n \in 1..Len(ret)}
        IN  /\ Cardinality(levelsI) = Pow2(half)
            /\ Cardinality(levelsQ) = Pow2(half)
            /\ \A n \in 1..Len(ret) :
                  ret[n].bits = GrayLabel(LevelIndex(levelsI, ret[n].I), half)
                                \o GrayLabel(LevelIndex(levelsQ, ret[n].Q), half)
            /\ \A n \in 1..Len(ret), m \in 1..Len(ret) :
                  /\ ret[n].I = ret[m].I =>
                        SubSeq(ret[n].bits, 1, half) = SubSeq(ret[m].bits, 1, half)
                  /\ ret[n].Q = ret[m].Q =>
                        SubSeq(ret[n].bits, half + 1, 2 * half)
                          = SubSeq(ret[m].bits, half + 1, 2 * half)

\* the 64-QAM point in the second column of the lowest row
C24_Witness ==
    /\ call.fn = "generateConstellation"
    /\ call.scheme = "64-QAM"
    /\ \E n \in 1..Len(ret) :
          /\ LevelIndex({ret[m].I : m \in 1..Len(ret)}, ret[n].I) = 1
          /\ LevelIndex({ret[m].Q : m \in 1..Len(ret)}, ret[n].Q) = 0
          /\ ret[n].bits = <<"0", "0", "1", "0", "0", "0">>


----------------------------------------------------------------------------
(* Further properties of the session, checked under Spec.                  *)

\* the last operation ran simulateStep: a manual step, or an animation frame
\* that produced symbols
StepRan ==
    \/ lastOp = "step"
    \/ lastOp = "animationFrame" /\ state.symbolCount # stateBefore.symbolCount

\* the records of the symbols the last step produced
NewRecords == sliceLast(state.recentSymbols, WAVEFORM_SYMBOLS)

RECURSIVE HammingSum(_, _)
HammingSum(records, i) ==
    IF i > Len(records) THEN 0
    ELSE Hamming(records[i].transmittedBits, records[i].decodedBits)
         + HammingSum(records, i + 1)

\* C25: a step of n symbols of k bits adds n to symbolCount, n * k to
\* bitCount and to bitErrorCount the sum over the n symbols of the Hamming
\* distance between the transmitted and the decoded label, a number from 0
\* to n * k; the transmitted label of symbol i is bit group i of the bits
\* drawn; scheme, snrDb, isPlaying and playbackSpeed stay as they were.
C25_StepFrame ==
    StepRan =>
        LET n == WAVEFORM_SYMBOLS
            k == BITS_PER_SYMBOL(stateBefore.scheme)
            stepErrors == HammingSum(NewRecords, 1)
        IN  /\ state.symbolCount = stateBefore.symbolCount + n
            /\ state.bitCount = stateBefore.bitCount + n * k
            /\ state.bitErrorCount = stateBefore.bitErrorCount + stepErrors
            /\ stepErrors \in 0..(n * k)
            /\ Len(NewRecords) = n
            /\ \A i \in 1..n :
                  /\ NewRecords[i].transmittedBits
                        = join(slice(state.currentBits, (i - 1) * k, k))
                  /\ NewRecords[i].isError
                        = (NewRecords[i].transmittedBits # NewRecords[i].decodedBits)
            /\ state.scheme = stateBefore.scheme
            /\ state.snrDb = stateBefore.snrDb
            /\ state.isPlaying = stateBefore.isPlaying
            /\ state.playbackSpeed = stateBefore.playbackSpeed

\* a second step whose last symbol is decoded wrongly
C25_Witness ==
    /\ lastOp = "step"
    /\ stateBefore.symbolCount = WAVEFORM_SYMBOLS
    /\ stateBefore.bitErrorCount > 0
    /\ state.bitErrorCount > stateBefore.bitErrorCount
    /\ NewRecords[WAVEFORM_SYMBOLS].isError


\* C26: in every state that step, play, pause, reset, setScheme, setSnrDb,
\* setPlaybackSpeed and the animation frames can reach, bitCount is
\* symbolCount times the bits per symbol of the current scheme,
\* bitErrorCount lies between 0 and bitCount, and currentBER is a number
\* between 0 and 1.
C26_CounterInvariants ==
    /\ state.bitCount = state.symbolCount * BITS_PER_SYMBOL(state.scheme)
    /\ 0 <= state.bitErrorCount
    /\ state.bitErrorCount <= state.bitCount
    /\ LET ber == currentBER(state)
       IN  /\ ber[1] = "ratio"
           /\ ber[3] > 0
           /\ 0 <= ber[2]
           /\ ber[2] <= ber[3]

\* the scheme changes to one of another label length while a session
\* with errors counted is playing
C26_Witness ==
    /\ lastOp = "setScheme"
    /\ stateBefore.bitErrorCount > 0
    /\ BITS_PER_SYMBOL(state.scheme) # BITS_PER_SYMBOL(stateBefore.scheme)
    /\ state.isPlaying


----------------------------------------------------------------------------
(* Termination of the sweep point, checked under SpecSweepFair.            *)

\* what holds of the batches run so far and of the SweepPoint returned
SweepBatchesBounded ==
    sweep.pc \in {"loop", "done"} =>
        LET k == BITS_PER_SYMBOL(sweep.scheme)
        IN  /\ \A i \in 1..Len(sweep.batches) :
                  /\ 1 <= sweep.batches[i]
                  /\ sweep.batches[i] <= sweep.batchSymbols
            /\ sweep.bitCount = k * SumSeq(sweep.batches)
            /\ 0 <= sweep.errorCount
            /\ sweep.errorCount <= sweep.bitCount
            /\ sweep.pc = "done" =>
                  /\ sweep.bitCount >= sweep.bitsTarget
                  /\ sweep.bitCount - k < sweep.bitsTarget
                  /\ sweep.simulatedBER =
                        IF sweep.bitCount = 0 THEN <<"ratio", 0, 1>>
                        ELSE <<"ratio", sweep.errorCount, sweep.bitCount>>

\* C27: for every scheme, bitsTarget >= 0 and batchSymbols >= 1 the batch
\* loop of simulateBerAtSnr ends and the point is returned; every batch
\* holds from 1 to batchSymbols symbols; the returned bitCount is the
\* smallest multiple of k at or above bitsTarget, errorCount <= bitCount,
\* and simulatedBER is errorCount / bitCount, or 0 when bitCount is 0.
C27_SweepTerminates ==
    /\ []SweepBatchesBounded
    /\ (sweep.pc = "loop") ~> (sweep.pc = "done")

\* QPSK, 7 bits asked for in batches of two symbols: two batches, 8 bits
C27_Witness ==
    /\ sweep.pc = "done"
    /\ sweep.scheme = "QPSK"
    /\ sweep.bitsTarget = 7
    /\ sweep.batchSymbols = 2
    /\ sweep.batches = <<2, 2>>
    /\ sweep.bitCount = 8
    /\ sweep.errorCount > 0


----------------------------------------------------------------------------
(* The binary search of requiredEbN0ForBER, checked under SpecSearchFair.  *)

\* a target that is NaN: no BER compares above it, below it or equal to it
IsNaNTarget(target) == target.above = Bottom /\ target.below = Top

\* theoreticalBER(scheme, snr) >= targetBER, and targetBER >= theoreticalBER
berAtLeast(target, snr) == ~IsNaNTarget(target) /\ ~berBelow(target, snr)

berAtMost(target, snr) == ~IsNaNTarget(target) /\ ~berAbove(target, snr)

\* the search of the last call runs or has run its loop
Searching ==
    /\ call.fn = "requiredEbN0ForBER"
    /\ ~berAbove(call.target, SearchHigh)
    /\ ~berBelow(call.target, SearchLow)

\* C28 as stated: whenever neither early return applies, at every pass
\* BER(low) >= targetBER >= BER(high) and -10 <= low < high <= 30.
C28_OrderedAtEveryPass ==
    Searching =>
        /\ berAtLeast(call.target, ret.low)
        /\ berAtMost(call.target, ret.high)
        /\ SearchLow <= ret.low /\ ret.low < ret.high /\ ret.high <= SearchHigh

\* the interval is 40 dB wide at first and half as wide after each pass; its
\* ends stay ordered in -10..30 dB; for a target that is a number the BER at
\* low is at or above the target and the BER at high at or below it; for a
\* NaN target every pass moves high and low stays at -10 dB
SearchInterval ==
    Searching =>
        /\ ret.passes <= 12
        /\ (ret.high - ret.low) * Pow2(ret.passes) = SearchHigh - SearchLow
        /\ SearchLow <= ret.low /\ ret.low < ret.high /\ ret.high <= SearchHigh
        /\ ~IsNaNTarget(call.target) =>
              /\ berAtLeast(call.target, ret.low)
              /\ berAtMost(call.target, ret.high)
        /\ IsNaNTarget(call.target) =>
              /\ ret.low = SearchLow
              /\ ~berAtLeast(call.target, ret.low)
              /\ ~berAtMost(call.target, ret.high)
        /\ ret.pc = "done" =>
              /\ ret.value[1] = "fin"
              /\ ret.low <= ret.value[2]
              /\ ret.value[2] <= ret.high

\* C28, amended: when neither early return applies the search ends, the
\* interval halving from 40 dB with -10 <= low < high <= 30 at every pass;
\* BER(low) >= targetBER >= BER(high) holds at every pass when targetBER is
\* a number, and the returned midpoint lies between low and high; for a NaN
\* targetBER neither ordering holds and the result is the midpoint next to
\* -10 dB.
C28_SearchTerminatesOrdered ==
    /\ []SearchInterval
    /\ (Searching /\ ret.pc = "loop") ~> (Searching /\ ret.pc = "done")

\* a search for a BER that stays at the target from some Eb/N0 on, ended
\* after twelve passes that moved both ends
C28_Witness ==
    /\ Searching
    /\ ret.pc = "done"
    /\ ret.passes = 12
    /\ call.target.above # call.target.below
    /\ ~IsNaNTarget(call.target)
    /\ SearchLow < ret.low
    /\ ret.high < SearchHigh


----------------------------------------------------------------------------
(* The display buffer, checked under SpecLong.                             *)

\* C29: recentSymbols never holds more than 200 records; after a step it
\* is made of the records kept from before, in their order and without the
\* oldest ones that no longer fit, followed by the records of the symbols
\* of the step in the order of the symbols; reset and setScheme empty it.
C29_RecentSymbolsWindow ==
    /\ Len(state.recentSymbols) <= MAX_RECENT_SYMBOLS
    /\ lastOp \in {"reset", "setScheme"} => state.recentSymbols = <<>>
    /\ StepRan =>
          LET old == stateBefore.recentSymbols
              cur == state.recentSymbols
              n == WAVEFORM_SYMBOLS
              k == BITS_PER_SYMBOL(state.scheme)
              kept == Len(cur) - n
          IN  /\ Len(cur) = Min(MAX_RECENT_SYMBOLS, Len(old) + n)
              /\ \A i \in 1..n :
                    /\ cur[kept + i].I = state.noisySymbols[i].I
                    /\ cur[kept + i].Q = state.noisySymbols[i].Q
                    /\ cur[kept + i].transmittedBits
                          = join(slice(state.currentBits, (i - 1) * k, k))
              /\ \A i \in 1..kept : cur[i] = old[Len(old) - kept + i]

\* a step on a full buffer: the oldest records are gone, the next ones lead
C29_Witness ==
    /\ lastOp = "step"
    /\ Len(stateBefore.recentSymbols) = MAX_RECENT_SYMBOLS
    /\ Len(state.recentSymbols) = MAX_RECENT_SYMBOLS
    /\ state.recentSymbols[1] # stateBefore.recentSymbols[1]
    /\ state.recentSymbols[1] = stateBefore.recentSymbols[WAVEFORM_SYMBOLS + 1]
    /\ state.recentSymbols[MAX_RECENT_SYMBOLS]
          # stateBefore.recentSymbols[MAX_RECENT_SYMBOLS]


----------------------------------------------------------------------------
(* Playback, checked under Spec.                                           *)

\* 8 / playbackSpeed seconds, in milliseconds
BatchInterval(st) == (WAVEFORM_SYMBOLS * 1000) \div st.playbackSpeed

\* C30: an animation frame runs only while isPlaying is true, and
\* isPlaying is false after pause() and reset() and becomes true by play()
\* alone, so no frame changes the counters between a pause or reset and
\* the next play; a frame steps at most once, by 8 symbols, and only when
\* the time accumulated with this frame has reached 8 / playbackSpeed
\* seconds, which is then taken off the accumulator; a frame that does not
\* step leaves the state as it is.
C30_FramesStepOnlyWhilePlaying ==
    [][ /\ lastOp' \in {"pause", "reset"} => ~state'.isPlaying
        /\ (~state.isPlaying /\ state'.isPlaying) => lastOp' = "play"
        /\ lastOp' = "animationFrame" =>
              /\ state.isPlaying
              /\ \/ /\ state' = state
                    /\ \/ ~lastTimeSet /\ timeAccumulator' = timeAccumulator
                       \/ \E deltaTime \in FrameDeltas :
                             /\ timeAccumulator' = timeAccumulator + deltaTime
                             /\ timeAccumulator' < BatchInterval(state)
                 \/ /\ state'.symbolCount = state.symbolCount + WAVEFORM_SYMBOLS
                    /\ lastTimeSet
                    /\ \E deltaTime \in FrameDeltas :
                          /\ timeAccumulator + deltaTime >= BatchInterval(state)
                          /\ timeAccumulator'
                                = timeAccumulator + deltaTime - BatchInterval(state)
      ]_vars

\* a frame that stepped and left time over in the accumulator
C30_Witness ==
    /\ lastOp = "animationFrame"
    /\ state.isPlaying
    /\ state.symbolCount = stateBefore.symbolCount + WAVEFORM_SYMBOLS
    /\ stateBefore.symbolCount = WAVEFORM_SYMBOLS
    /\ timeAccumulator > 0

====
